---- MODULE Spec2Model ----
(***************************************************************************)
(* A model of gaxy, a reverse proxy in front of Google Analytics / Tag     *)
(* Manager: the request-URI validator (pkg/proxy), the bounded TTL cache   *)
(* (pkg/cache) and the proxy engine (Service.ProxyRequest).                *)
(*                                                                         *)
(* Strings are sequences of one-byte characters; a character is the        *)
(* one-character string of its byte where the byte is printable ASCII     *)
(* (the backquote excepted) and the token "xNN" for every other byte NN.   *)
(***************************************************************************)
EXTENDS Integers, Sequences, FiniteSets, TLC

(***************************************************************************)
(* Bytes and strings (Go's string and the strings package).                *)
(***************************************************************************)
ByteChr ==
  << "x00", "x01", "x02", "x03", "x04", "x05", "x06", "x07", "x08", "x09", "x0a", "x0b", "x0c", "x0d", "x0e", "x0f",
     "x10", "x11", "x12", "x13", "x14", "x15", "x16", "x17", "x18", "x19", "x1a", "x1b", "x1c", "x1d", "x1e", "x1f",
     " ", "!", "\"", "#", "$", "%", "&", "'", "(", ")", "*", "+", ",", "-", ".", "/",
     "0", "1", "2", "3", "4", "5", "6", "7", "8", "9", ":", ";", "<", "=", ">", "?",
     "@", "A", "B", "C", "D", "E", "F", "G", "H", "I", "J", "K", "L", "M", "N", "O",
     "P", "Q", "R", "S", "T", "U", "V", "W", "X", "Y", "Z", "[", "\\", "]", "^", "_",
     "x60", "a", "b", "c", "d", "e", "f", "g", "h", "i", "j", "k", "l", "m", "n", "o",
     "p", "q", "r", "s", "t", "u", "v", "w", "x", "y", "z", "{", "|", "}", "~", "x7f",
     "x80", "x81", "x82", "x83", "x84", "x85", "x86", "x87", "x88", "x89", "x8a", "x8b", "x8c", "x8d", "x8e", "x8f",
     "x90", "x91", "x92", "x93", "x94", "x95", "x96", "x97", "x98", "x99", "x9a", "x9b", "x9c", "x9d", "x9e", "x9f",
     "xa0", "xa1", "xa2", "xa3", "xa4", "xa5", "xa6", "xa7", "xa8", "xa9", "xaa", "xab", "xac", "xad", "xae", "xaf",
     "xb0", "xb1", "xb2", "xb3", "xb4", "xb5", "xb6", "xb7", "xb8", "xb9", "xba", "xbb", "xbc", "xbd", "xbe", "xbf",
     "xc0", "xc1", "xc2", "xc3", "xc4", "xc5", "xc6", "xc7", "xc8", "xc9", "xca", "xcb", "xcc", "xcd", "xce", "xcf",
     "xd0", "xd1", "xd2", "xd3", "xd4", "xd5", "xd6", "xd7", "xd8", "xd9", "xda", "xdb", "xdc", "xdd", "xde", "xdf",
     "xe0", "xe1", "xe2", "xe3", "xe4", "xe5", "xe6", "xe7", "xe8", "xe9", "xea", "xeb", "xec", "xed", "xee", "xef",
     "xf0", "xf1", "xf2", "xf3", "xf4", "xf5", "xf6", "xf7", "xf8", "xf9", "xfa", "xfb", "xfc", "xfd", "xfe", "xff" >>

Chr(n) == ByteChr[n + 1]

EmptyStr == <<>>

Digits == {"0", "1", "2", "3", "4", "5", "6", "7", "8", "9"}

UpperCase ==
  <<"A", "B", "C", "D", "E", "F", "G", "H", "I", "J", "K", "L", "M",
    "N", "O", "P", "Q", "R", "S", "T", "U", "V", "W", "X", "Y", "Z">>

LowerCase ==
  <<"a", "b", "c", "d", "e", "f", "g", "h", "i", "j", "k", "l", "m",
    "n", "o", "p", "q", "r", "s", "t", "u", "v", "w", "x", "y", "z">>

\* the hexadecimal digits by value, in lower and in upper case
HexLower == <<"0", "1", "2", "3", "4", "5", "6", "7", "8", "9", "a", "b", "c", "d", "e", "f">>

HexUpper == <<"0", "1", "2", "3", "4", "5", "6", "7", "8", "9", "A", "B", "C", "D", "E", "F">>

\* the bytes below 0x20 and 0x7f
CTLBytes ==
  {"x00", "x01", "x02", "x03", "x04", "x05", "x06", "x07", "x08", "x09", "x0a",
   "x0b", "x0c", "x0d", "x0e", "x0f", "x10", "x11", "x12", "x13", "x14", "x15",
   "x16", "x17", "x18", "x19", "x1a", "x1b", "x1c", "x1d", "x1e", "x1f", "x7f"}

\* c < 0x80
IsASCII(c) == \E n \in 0..127 : Chr(n) = c

SetMin(S) == CHOOSE x \in S : \A y \in S : x <= y

SetMax(S) == CHOOSE x \in S : \A y \in S : x >= y

\* s[:n] and s[n:] with Go's 0-based offsets
Take(s, n) == SubSeq(s, 1, n)

Drop(s, n) == SubSeq(s, n + 1, Len(s))

HasPrefix(s, p) == Len(p) <= Len(s) /\ Take(s, Len(p)) = p

HasSuffix(s, p) == Len(p) <= Len(s) /\ Drop(s, Len(s) - Len(p)) = p

\* the 0-based offsets at which sub occurs in s
Occurrences(s, sub) == {i \in 0..(Len(s) - Len(sub)) : SubSeq(s, i + 1, i + Len(sub)) = sub}

Contains(s, sub) == \E i \in 0..(Len(s) - Len(sub)) : SubSeq(s, i + 1, i + Len(sub)) = sub

FirstOf(S) == IF S = {} THEN -1 ELSE SetMin(S)

LastOf(S) == IF S = {} THEN -1 ELSE SetMax(S)

Index(s, sub) == FirstOf(Occurrences(s, sub))

LastIndex(s, sub) == LastOf(Occurrences(s, sub))

\* strings.Count for a one-character separator
Count(s, c) == Cardinality({i \in 1..Len(s) : s[i] = c})

\* strings.Cut, given the offset i of the separator (-1: none)
CutAt(s, sep, i) ==
  IF i < 0
  THEN [before |-> s, after |-> EmptyStr, found |-> FALSE]
  ELSE [before |-> Take(s, i), after |-> Drop(s, i + Len(sep)), found |-> TRUE]

Cut(s, sep) == CutAt(s, sep, Index(s, sep))

IsUpper(c) == \E i \in 1..26 : UpperCase[i] = c

IsLetter(c) == \E i \in 1..26 : UpperCase[i] = c \/ LowerCase[i] = c

IsDigit(c) == c \in Digits

ToLowerChar(c) == IF IsUpper(c) THEN LowerCase[CHOOSE i \in 1..26 : UpperCase[i] = c] ELSE c

ToLower(s) == [i \in 1..Len(s) |-> ToLowerChar(s[i])]

(***************************************************************************)
(* net/url of the Go standard library, as far as url.Parse computes the    *)
(* fields the proxy reads (Scheme, Host, Path, RawQuery).                  *)
(***************************************************************************)
ishex(c) == \E i \in 1..16 : HexLower[i] = c \/ HexUpper[i] = c

unhex(c) == IF ishex(c) THEN (CHOOSE i \in 1..16 : HexLower[i] = c \/ HexUpper[i] = c) - 1 ELSE 0

stringContainsCTLByte(s) == \E i \in 1..Len(s) : s[i] \in CTLBytes

HostSubDelims == {"!", "$", "&", "'", "(", ")", "*", "+", ",", ";", "=", ":", "[", "]", "<", ">", "\""}

\* shouldEscape(c, encodeHost)
shouldEscapeHost(c) ==
  ~ (IsLetter(c) \/ IsDigit(c) \/ c \in HostSubDelims \/ c \in {"-", "_", ".", "~"})

UnescapeError == [err |-> TRUE, out |-> EmptyStr]

\* the character c in front of the rest r of an unescaped string
Prepend(c, r) == IF r.err THEN r ELSE [err |-> FALSE, out |-> <<c>> \o r.out]

\* unescape(s, mode) from position i (1-based) on; mode is "path", "fragment",
\* "userinfo", "host" or "zone".  The result is [err, out].
RECURSIVE unescapeFrom(_, _, _)
\* the escape %XY at position i, which decodes to the character c
unescapeEscape(s, i, mode, c) ==
  IF mode = "host" /\ unhex(s[i + 1]) < 8 /\ SubSeq(s, i, i + 2) # <<"%", "2", "5">>
  THEN UnescapeError
  ELSE IF mode = "zone" /\ SubSeq(s, i, i + 2) # <<"%", "2", "5">> /\ c # " "
          /\ shouldEscapeHost(c)
  THEN UnescapeError
  ELSE Prepend(c, unescapeFrom(s, i + 3, mode))

unescapeFrom(s, i, mode) ==
  IF i > Len(s) THEN [err |-> FALSE, out |-> EmptyStr]
  ELSE IF s[i] = "%" THEN
    IF i + 2 > Len(s) \/ ~ ishex(s[i + 1]) \/ ~ ishex(s[i + 2])
    THEN UnescapeError
    ELSE unescapeEscape(s, i, mode, Chr(unhex(s[i + 1]) * 16 + unhex(s[i + 2])))
  ELSE IF mode \in {"host", "zone"} /\ IsASCII(s[i]) /\ shouldEscapeHost(s[i])
    THEN UnescapeError
    ELSE Prepend(s[i], unescapeFrom(s, i + 1, mode))

unescape(s, mode) == unescapeFrom(s, 1, mode)

\* the offsets (1-based) of the characters that end a scheme or rule it out
schemeStops(rawURL) ==
  {i \in 1..Len(rawURL) :
     ~ IsLetter(rawURL[i])
     /\ ~ (i > 1 /\ (IsDigit(rawURL[i]) \/ rawURL[i] \in {"+", "-", "."}))}

\* getScheme, given the first such offset i (-1: none): [err, scheme, path]
getSchemeAt(rawURL, i) ==
  IF i < 0 THEN [err |-> FALSE, scheme |-> EmptyStr, path |-> rawURL]
  ELSE IF rawURL[i] # ":" THEN [err |-> FALSE, scheme |-> EmptyStr, path |-> rawURL]
  ELSE IF i = 1 THEN [err |-> TRUE, scheme |-> EmptyStr, path |-> EmptyStr]
  ELSE [err |-> FALSE, scheme |-> Take(rawURL, i - 1), path |-> Drop(rawURL, i)]

getScheme(rawURL) == getSchemeAt(rawURL, FirstOf(schemeStops(rawURL)))

validOptionalPort(port) ==
  \/ port = EmptyStr
  \/ port[1] = ":" /\ \A i \in 2..Len(port) : IsDigit(port[i])

UserinfoMarks == {"-", ".", "_", ":", "~", "!", "$", "&", "'", "(", ")", "*", "+", ",", ";", "=", "%", "@"}

validUserinfo(s) == \A i \in 1..Len(s) : IsLetter(s[i]) \/ IsDigit(s[i]) \/ s[i] \in UserinfoMarks

\* host1 + host2 + host3 of parseHost
Concat3(h1, h2, h3) ==
  IF h1.err \/ h2.err \/ h3.err THEN UnescapeError
  ELSE [err |-> FALSE, out |-> h1.out \o h2.out \o h3.out]

\* parseHost of "[...]...", i the offset of the last "]", zone that of "%25"
parseHostZone(host, i, zone) ==
  IF zone >= 0
  THEN Concat3(unescape(Take(host, zone), "host"),
               unescape(SubSeq(host, zone + 1, i), "zone"),
               unescape(Drop(host, i), "host"))
  ELSE unescape(host, "host")

parseHostBracket(host, i) ==
  IF i < 0 THEN UnescapeError
  ELSE IF ~ validOptionalPort(Drop(host, i + 1)) THEN UnescapeError
  ELSE parseHostZone(host, i, Index(Take(host, i), <<"%", "2", "5">>))

\* parseHost of a host without brackets, i the offset of its last ":"
parseHostPort(host, i) ==
  IF i # -1 /\ ~ validOptionalPort(Drop(host, i)) THEN UnescapeError
  ELSE unescape(host, "host")

\* parseHost: [err, out]
parseHost(host) ==
  IF HasPrefix(host, <<"[">>)
  THEN parseHostBracket(host, LastIndex(host, <<"]">>))
  ELSE parseHostPort(host, LastIndex(host, <<":">>))

\* the user information before offset i, for the parsed host h
parseUserinfo(authority, i, h) ==
  IF h.err THEN h
  ELSE IF ~ validUserinfo(Take(authority, i)) THEN UnescapeError
  ELSE IF unescape(Take(authority, i), "userinfo").err THEN UnescapeError
  ELSE h

parseAuthorityAt(authority, i) ==
  IF i < 0 THEN parseHost(authority)
  ELSE parseUserinfo(authority, i, parseHost(Drop(authority, i + 1)))

\* parseAuthority: [err, out], out the host; the user information is dropped
parseAuthority(authority) == parseAuthorityAt(authority, LastIndex(authority, <<"@">>))

EmptyURL ==
  [err |-> FALSE, Scheme |-> EmptyStr, Opaque |-> EmptyStr, Host |-> EmptyStr,
   Path |-> EmptyStr, RawQuery |-> EmptyStr, ForceQuery |-> FALSE]

ParseError == [EmptyURL EXCEPT !.err = TRUE]

setPathTo(u, r) == IF r.err THEN ParseError ELSE [u EXCEPT !.Path = r.out]

setPath(u, p) == setPathTo(u, unescape(p, "path"))

\* the authority pa and the path rest behind it
parseHostPath(u, pa, rest) ==
  IF pa.err THEN ParseError ELSE setPath([u EXCEPT !.Host = pa.out], rest)

\* rest[2:] cut at its first "/"
parseAuthorityPath(u, c) ==
  parseHostPath(u, parseAuthority(c.before),
                IF c.found THEN <<"/">> \o c.after ELSE EmptyStr)

\* parse, from the scheme and the query on
parseRest(u, rest) ==
  IF ~ HasPrefix(rest, <<"/">>) /\ u.Scheme # EmptyStr
  THEN [u EXCEPT !.Opaque = rest]
  ELSE IF ~ HasPrefix(rest, <<"/">>) /\ Contains(Cut(rest, <<"/">>).before, <<":">>)
  THEN ParseError
  ELSE IF (u.Scheme # EmptyStr \/ ~ HasPrefix(rest, <<"/", "/", "/">>))
          /\ HasPrefix(rest, <<"/", "/">>)
  THEN parseAuthorityPath(u, Cut(Drop(rest, 2), <<"/">>))
  ELSE setPath(u, rest)

\* rest cut at its first "?"
parseQuery(scheme, rest, c) ==
  IF HasSuffix(rest, <<"?">>) /\ Count(rest, "?") = 1
  THEN parseRest([EmptyURL EXCEPT !.Scheme = scheme, !.ForceQuery = TRUE],
                 Take(rest, Len(rest) - 1))
  ELSE parseRest([EmptyURL EXCEPT !.Scheme = scheme, !.RawQuery = c.after], c.before)

parseScheme(gs) ==
  IF gs.err THEN ParseError
  ELSE parseQuery(ToLower(gs.scheme), gs.path, Cut(gs.path, <<"?">>))

\* parse(rawURL, viaRequest = false)
parse(rawURL) ==
  IF stringContainsCTLByte(rawURL) THEN ParseError
  ELSE IF rawURL = <<"*">> THEN [EmptyURL EXCEPT !.Path = <<"*">>]
  ELSE parseScheme(getScheme(rawURL))

\* setFragment
setFragment(u, frag) ==
  IF u.err THEN ParseError
  ELSE IF frag = EmptyStr THEN u
  ELSE IF unescape(frag, "fragment").err THEN ParseError
  ELSE u

ParseCut(c) == setFragment(parse(c.before), c.after)

\* url.Parse
Parse(rawURL) == ParseCut(Cut(rawURL, <<"#">>))

(***************************************************************************)
(* pkg/proxy: the validator.                                               *)
(***************************************************************************)
\* (mutant) only an "http://" prefix counts as a scheme
HasSchemeSeparator_httpPrefixOnly(uri) ==
  HasPrefix(uri, <<"h", "t", "t", "p", ":", "/", "/">>)

\* strings.Contains(reqURI, "://")
HasSchemeSeparator(reqURI) == Contains(reqURI, <<":", "/", "/">>)

\* (mutant) the protocol-relative check is left to the host check
IsProtocolRelative_omitted(uri) == FALSE

\* strings.HasPrefix(reqURI, "//")
IsProtocolRelative(reqURI) == HasPrefix(reqURI, <<"/", "/">>)

\* (mutant) only "../" counts as traversal
HasTraversal_slashOnly(path) == Contains(path, <<".", ".", "/">>)

\* strings.Contains(path, "..")
HasTraversal(path) == Contains(path, <<".", ".">>)

SanitizeErr(msg) == [ok |-> FALSE, uri |-> EmptyStr, err |-> msg]

\* sanitizePath without the test for the leading slash
sanitizePath_noSlashTest(path, rawQuery) ==
  IF HasTraversal(path)
    THEN SanitizeErr("request URI must not contain directory traversal sequences")
  ELSE [ok |-> TRUE,
        uri |-> IF rawQuery # EmptyStr THEN path \o <<"?">> \o rawQuery ELSE path,
        err |-> ""]

\* the checks on the path and the reconstruction of path and query
sanitizePath(path, rawQuery) ==
  IF ~ HasPrefix(path, <<"/">>)
    THEN SanitizeErr("request URI path must start with /")
  ELSE IF HasTraversal(path)
    THEN SanitizeErr("request URI must not contain directory traversal sequences")
  ELSE [ok |-> TRUE,
        uri |-> IF rawQuery # EmptyStr THEN path \o <<"?">> \o rawQuery ELSE path,
        err |-> ""]

\* the checks on the parsed request URI
sanitizeParsed(parsedURI) ==
  IF parsedURI.err THEN SanitizeErr("invalid request URI")
  ELSE IF parsedURI.Host # EmptyStr
    THEN SanitizeErr("request URI must not contain a host")
  ELSE IF parsedURI.Scheme # EmptyStr
    THEN SanitizeErr("request URI must not contain a scheme")
  ELSE sanitizePath(IF parsedURI.Path = EmptyStr THEN <<"/">> ELSE parsedURI.Path,
                    parsedURI.RawQuery)

sanitizeRequestURI(uri) ==
  IF uri = EmptyStr THEN SanitizeErr("request URI cannot be empty")
  ELSE IF HasSchemeSeparator(uri)
    THEN SanitizeErr("request URI must not contain a scheme (http://)")
  ELSE IF IsProtocolRelative(uri)
    THEN SanitizeErr("request URI must not be a protocol-relative URL")
  ELSE sanitizeParsed(Parse(uri))

allowedPrefixes ==
  << <<"/", "a", "n", "a", "l", "y", "t", "i", "c", "s", ".", "j", "s">>,
     <<"/", "g", "a", ".", "j", "s">>,
     <<"/", "g", "t", "a", "g", "/", "j", "s">>,
     <<"/", "g", "t", "m", ".", "j", "s">>,
     <<"/", "c", "o", "l", "l", "e", "c", "t">>,
     <<"/", "j", "/", "c", "o", "l", "l", "e", "c", "t">>,
     <<"/", "g", "/", "c", "o", "l", "l", "e", "c", "t">>,
     <<"/", "r", "/", "c", "o", "l", "l", "e", "c", "t">>,
     <<"/", "b", "a", "t", "c", "h">>,
     <<"/", "a", "p", "i", "/">> >>

\* isAllowedPath_exact: the path has to be one of the prefixes
isAllowedPath_exact(path) == \E i \in 1..Len(allowedPrefixes) : path = allowedPrefixes[i]

isAllowedPath(path) == \E i \in 1..Len(allowedPrefixes) : HasPrefix(path, allowedPrefixes[i])

(***************************************************************************)
(* State.                                                                  *)
(*   reqURI, sanitized : the validator's input and its result              *)
(*   cache             : the Cache struct (data, currSize, stats)          *)
(*   now               : the clock read by time.Now()                      *)
(*   wpc               : per worker, the Cache call it is executing        *)
(*   lastWrite         : the last call that took the cache's write lock    *)
(***************************************************************************)
VARIABLES reqURI, sanitized, cache, now, wpc, lastWrite, config, lastReq,
          limiter, allowLog, client, edge, metrics

validatorVars == <<reqURI, sanitized>>

cacheVars == <<cache, now, wpc, lastWrite>>

engineVars == <<config, lastReq>>

limiterVars == <<limiter, allowLog>>

edgeVars == <<edge, metrics>>

vars == <<reqURI, sanitized, cache, now, wpc, lastWrite, config, lastReq,
         limiter, allowLog, client, edge, metrics>>

(***************************************************************************)
(* Bounds.                                                                 *)
(***************************************************************************)
\* longest request URI handed to the validator
MaxURILen == 5

\* the characters request URIs are built from
URIAlphabet == {"/", ":", ".", "?", "#", "%", "2", "f"}

\* Cache.maxSize and Cache.ttl as passed to cache.New, in bytes and clock ticks
MaxSize == 1

TTL == 1

\* the clock stops one tick after an entry stored at time 0 has expired
MaxTime == TTL + 1

Workers == {1, 2}

\* Set calls are counted up to MaxSets: enough to fill the cache and evict
\* twice; Get calls up to MaxGets: one for every worker
MaxSets == MaxSize + 2

MaxGets == Cardinality(Workers)

CacheKeys == {EmptyStr, <<"/", "a">>, <<"/", "b">>}

(***************************************************************************)
(* The validator applied to one request URI.                               *)
(***************************************************************************)
URIInputs == UNION {[1..n -> URIAlphabet] : n \in 0..MaxURILen}

NotSanitized == [called |-> FALSE]

(***************************************************************************)
(* pkg/cache.                                                              *)
(***************************************************************************)
CtJavaScript == <<"t", "e", "x", "t", "/", "j", "a", "v", "a", "s", "c", "r", "i", "p", "t">>

CtGif == <<"i", "m", "a", "g", "e", "/", "g", "i", "f">>

BodyOfLen(n) == [i \in 1..n |-> i]

\* the (data, contentType, statusCode) triples passed to Set: one for every
\* body length up to one byte more than the cache holds
Payloads ==
  {[Data |-> BodyOfLen(n),
    ContentType |-> IF n % 2 = 1 THEN CtJavaScript ELSE CtGif,
    StatusCode |-> 200 + n] : n \in 0..(MaxSize + 1)}

NilEntry == [nil |-> TRUE]

EmptyMap == [k \in {} |-> NilEntry]

\* cache.New
NewCache(ttl, maxSize) ==
  [data |-> EmptyMap, maxSize |-> maxSize, currSize |-> 0, ttl |-> ttl,
   stats |-> [Hits |-> 0, Misses |-> 0, Evictions |-> 0, Sets |-> 0]]

MapDelete(m, key) == [k \in (DOMAIN m) \ {key} |-> m[k]]

MapPut(m, key, e) == [k \in (DOMAIN m) \cup {key} |-> IF k = key THEN e ELSE m[k]]

\* (mutant) an entry is expired from its expiration instant on
Expired_atExpiry(t, entry) == t >= entry.ExpiresAt

\* time.Now().After(entry.ExpiresAt)
Expired(t, entry) == t > entry.ExpiresAt

\* Get's two return values for key at time t
GetResult(c, key, t) ==
  IF key \notin DOMAIN c.data THEN [entry |-> NilEntry, found |-> FALSE]
  ELSE IF Expired(t, c.data[key]) THEN [entry |-> NilEntry, found |-> FALSE]
  ELSE [entry |-> c.data[key], found |-> TRUE]

\* what Get leaves in c.data
GetData(c, key, t) == c.data

\* OldestKeys_anyKey: the loop ends on whichever key it meets
OldestKeys_anyKey(c) == DOMAIN c.data

\* the keys evictOldest's range loop can end on: an entry with the earliest
\* ExpiresAt, whichever of them the iteration meets first
OldestKeys(c) ==
  {k \in DOMAIN c.data : \A j \in DOMAIN c.data : c.data[k].ExpiresAt <= c.data[j].ExpiresAt}

\* evictOldest, its loop having ended on oldestKey
evictOldest(c, oldestKey) ==
  IF oldestKey # EmptyStr
  THEN [c EXCEPT !.data = MapDelete(c.data, oldestKey),
                 !.currSize = @ - Len(c.data[oldestKey].Data),
                 !.stats.Evictions = @ + 1]
  ELSE c

\* the condition of Set's eviction loop
MustEvict(c, dataSize) == c.currSize + dataSize > c.maxSize /\ DOMAIN c.data # {}

\* (mutant) the status code is taken to be 200
NewEntry_fixedStatus(c, p, t) ==
  [Data |-> p.Data, ExpiresAt |-> t + c.ttl, ContentType |-> p.ContentType, StatusCode |-> 200]

\* the entry Set builds
NewEntry(c, p, t) ==
  [Data |-> p.Data, ExpiresAt |-> t + c.ttl, ContentType |-> p.ContentType,
   StatusCode |-> p.StatusCode]

\* (mutant) the old entry of the key is not discounted
SetStore_noDiscount(c, key, entry) ==
  [c EXCEPT !.data = MapPut(c.data, key, entry),
            !.currSize = @ + Len(entry.Data),
            !.stats.Sets = @ + 1]

\* Set after its eviction loop: discount the old entry, store, count
SetStore(c, key, entry) ==
  LET old == IF key \in DOMAIN c.data THEN Len(c.data[key].Data) ELSE 0
  IN  [c EXCEPT !.data = MapPut(c.data, key, entry),
                !.currSize = @ - old + Len(entry.Data),
                !.stats.Sets = @ + 1]

\* Delete
DeleteKey(c, key) ==
  IF key \in DOMAIN c.data
  THEN [c EXCEPT !.data = MapDelete(c.data, key), !.currSize = @ - Len(c.data[key].Data)]
  ELSE c

\* Clear
ClearAll(c) == [c EXCEPT !.data = EmptyMap, !.currSize = 0]

\* one pass of cleanupExpired's loop at time t
RECURSIVE SweepKeys(_, _, _)
SweepKeys(c, keys, t) ==
  IF keys = {} THEN c
  ELSE LET key == CHOOSE k \in keys : TRUE
           c2 == IF Expired(t, c.data[key])
                 THEN [c EXCEPT !.data = MapDelete(c.data, key),
                                !.currSize = @ - Len(c.data[key].Data)]
                 ELSE c
       IN  SweepKeys(c2, keys \ {key}, t)

cleanupExpired(c, t) == SweepKeys(c, DOMAIN c.data, t)

(***************************************************************************)
(* pkg/config: the accessors the engine calls.                             *)
(***************************************************************************)
\* strings.Split, given the offset i of the first separator (-1: none)
RECURSIVE Split(_, _)
SplitAt(s, sep, i) ==
  IF i < 0 THEN <<s>> ELSE <<Take(s, i)>> \o Split(Drop(s, i + Len(sep)), sep)

Split(s, sep) == SplitAt(s, sep, Index(s, sep))

\* the white space strings.TrimSpace removes (unicode.IsSpace), each
\* character as the bytes of its UTF-8 encoding: the ASCII white space,
\* U+0085, U+00A0, U+1680, U+2000 to U+200A, U+2028, U+2029, U+202F, U+205F
\* and U+3000
SpaceRunes ==
  {<<" ">>, <<"x09">>, <<"x0a">>, <<"x0b">>, <<"x0c">>, <<"x0d">>,
   <<"xc2", "x85">>, <<"xc2", "xa0">>, <<"xe1", "x9a", "x80">>,
   <<"xe2", "x80", "xa8">>, <<"xe2", "x80", "xa9">>, <<"xe2", "x80", "xaf">>,
   <<"xe2", "x81", "x9f">>, <<"xe3", "x80", "x80">>}
  \cup {<<"xe2", "x80", Chr(128 + k)>> : k \in 0..10}

\* strings.TrimLeftFunc(s, unicode.IsSpace)
RECURSIVE TrimLeftSpace(_)
TrimLeftSpace(s) ==
  IF \E r \in SpaceRunes : HasPrefix(s, r)
  THEN TrimLeftSpace(Drop(s, Len(CHOOSE r \in SpaceRunes : HasPrefix(s, r))))
  ELSE s

\* strings.TrimRightFunc(s, unicode.IsSpace)
RECURSIVE TrimRightSpace(_)
TrimRightSpace(s) ==
  IF \E r \in SpaceRunes : HasSuffix(s, r)
  THEN TrimRightSpace(Take(s, Len(s) - Len(CHOOSE r \in SpaceRunes : HasSuffix(s, r))))
  ELSE s

TrimSpace(s) == TrimRightSpace(TrimLeftSpace(s))

\* the HeaderMapping of one trimmed element, i the offset of its first "__"
HeaderMappingAt(mapping, i) ==
  IF i >= 0
  THEN [HeaderName |-> Take(mapping, i), ParamName |-> Drop(mapping, i + 2)]
  ELSE [HeaderName |-> mapping, ParamName |-> mapping]

HeaderMapping(mapping) == HeaderMappingAt(mapping, Index(mapping, <<"_", "_">>))

\* the loop of GetInjectHeaders over the elements parts[i..]
RECURSIVE InjectMappings(_, _)
InjectMapping(parts, i, mapping) ==
  IF mapping = EmptyStr THEN InjectMappings(parts, i + 1)
  ELSE <<HeaderMapping(mapping)>> \o InjectMappings(parts, i + 1)

InjectMappings(parts, i) ==
  IF i > Len(parts) THEN <<>> ELSE InjectMapping(parts, i, TrimSpace(parts[i]))

GetInjectHeaders(cfg) ==
  IF cfg.InjectParamsFromReqHeaders = EmptyStr THEN <<>>
  ELSE InjectMappings(Split(cfg.InjectParamsFromReqHeaders, <<",">>), 1)

\* the loop of GetSkipParams over the elements parts[i..]
RECURSIVE SkipParams(_, _)
SkipParam(parts, i, param) ==
  IF param = EmptyStr THEN SkipParams(parts, i + 1)
  ELSE <<param>> \o SkipParams(parts, i + 1)

SkipParams(parts, i) ==
  IF i > Len(parts) THEN <<>> ELSE SkipParam(parts, i, TrimSpace(parts[i]))

GetSkipParams(cfg) ==
  IF cfg.SkipParamsFromReqHeaders = EmptyStr THEN <<>>
  ELSE SkipParams(Split(cfg.SkipParamsFromReqHeaders, <<",">>), 1)

GetParsedGoogleOrigin(cfg) == Parse(cfg.GoogleOrigin)

(***************************************************************************)
(* fasthttp's query arguments (URI.QueryArgs): a sequence of decoded       *)
(* [key, value, noValue] records.                                          *)
(***************************************************************************)
\* decodeArgAppend from position i on: %XY and "+" are decoded, a malformed
\* escape is kept as it is, and a "%" with fewer than two bytes after it
\* ends the decoding: the rest is copied
RECURSIVE decodeArgFrom(_, _)
decodeArgFrom(s, i) ==
  IF i > Len(s) THEN EmptyStr
  ELSE IF s[i] = "%" /\ i + 2 > Len(s) THEN SubSeq(s, i, Len(s))
  ELSE IF s[i] = "%" /\ ishex(s[i + 1]) /\ ishex(s[i + 2])
    THEN <<Chr(unhex(s[i + 1]) * 16 + unhex(s[i + 2]))>> \o decodeArgFrom(s, i + 3)
  ELSE IF s[i] = "+" THEN <<" ">> \o decodeArgFrom(s, i + 1)
  ELSE <<s[i]>> \o decodeArgFrom(s, i + 1)

decodeArg(s) == decodeArgFrom(s, 1)

\* decodeArgAppendNoPlus from position i on: %XY is decoded, "+" is kept
RECURSIVE decodeArgNoPlusFrom(_, _)
decodeArgNoPlusFrom(s, i) ==
  IF i > Len(s) THEN EmptyStr
  ELSE IF s[i] = "%" /\ i + 2 > Len(s) THEN SubSeq(s, i, Len(s))
  ELSE IF s[i] = "%" /\ ishex(s[i + 1]) /\ ishex(s[i + 2])
    THEN <<Chr(unhex(s[i + 1]) * 16 + unhex(s[i + 2]))>> \o decodeArgNoPlusFrom(s, i + 3)
  ELSE <<s[i]>> \o decodeArgNoPlusFrom(s, i + 1)

\* fasthttp's normalizePath, which URI.SetPath applies: a leading slash is
\* added, escapes are decoded, duplicate slashes, "/./" and "/foo/../" are
\* removed, and so is a trailing "/foo/.."
addLeadingSlash(src) ==
  IF src = EmptyStr \/ src[1] # "/" THEN <<"/">> ELSE EmptyStr

\* b without the bytes from offset from up to offset to (0-based, to excluded)
CutOut(b, from, to) == Take(b, from) \o Drop(b, to)

RECURSIVE RemoveDupSlashes(_)
RemoveDupSlashesAt(b, n) ==
  IF n < 0 THEN b ELSE RemoveDupSlashes(CutOut(b, n, n + 1))

RemoveDupSlashes(b) == RemoveDupSlashesAt(b, Index(b, <<"/", "/">>))

RECURSIVE RemoveDotParts(_)
RemoveDotPartsAt(b, n) ==
  IF n < 0 THEN b ELSE RemoveDotParts(CutOut(b, n, n + 2))

RemoveDotParts(b) == RemoveDotPartsAt(b, Index(b, <<"/", ".", "/">>))

RECURSIVE RemoveDotDotParts(_)
RemoveDotDotPartsAt(b, n, nn) ==
  IF n < 0 THEN b ELSE RemoveDotDotParts(CutOut(b, IF nn < 0 THEN 0 ELSE nn, n + 3))

RemoveDotDotParts(b) ==
  RemoveDotDotPartsAt(b, Index(b, <<"/", ".", ".", "/">>),
                      LastIndex(Take(b, Index(b, <<"/", ".", ".", "/">>)), <<"/">>))

RemoveTrailingDotDotAt(b, n, nn) ==
  IF n >= 0 /\ n + 3 = Len(b)
  THEN IF nn < 0 THEN <<"/">> ELSE Take(b, nn + 1)
  ELSE b

RemoveTrailingDotDot(b) ==
  RemoveTrailingDotDotAt(b, LastIndex(b, <<"/", ".", ".">>),
                         LastIndex(Take(b, LastIndex(b, <<"/", ".", ".">>)), <<"/">>))


normalizePath(src) ==
  RemoveTrailingDotDot(RemoveDotDotParts(RemoveDotParts(RemoveDupSlashes(
    addLeadingSlash(src) \o decodeArgNoPlusFrom(src, 1)))))

\* one key=value element, c its cut at the first "="
ParseArg(c) == [key |-> decodeArg(c.before), value |-> decodeArg(c.after), noValue |-> ~ c.found]

\* Args.Parse over the elements parts[i..]; an element without key and value
\* is dropped
RECURSIVE ParseArgsFrom(_, _)
KeepArg(parts, i, kv) ==
  IF kv.key = EmptyStr /\ kv.value = EmptyStr THEN ParseArgsFrom(parts, i + 1)
  ELSE <<kv>> \o ParseArgsFrom(parts, i + 1)

ParseArgsFrom(parts, i) ==
  IF i > Len(parts) THEN <<>> ELSE KeepArg(parts, i, ParseArg(Cut(parts[i], <<"=">>)))

ParseArgs(queryString) ==
  IF queryString = EmptyStr THEN <<>> ELSE ParseArgsFrom(Split(queryString, <<"&">>), 1)

\* Args.Add
ArgsAdd(args, key, value) == Append(args, [key |-> key, value |-> value, noValue |-> FALSE])

\* Args.Del
ArgsDel(args, key) == SelectSeq(args, LAMBDA kv : kv.key # key)

\* the bytes AppendQuotedArg leaves as they are
ArgUnreserved(c) == IsLetter(c) \/ IsDigit(c) \/ c \in {"-", "_", ".", "~"}

\* the byte value of c; hexadecimal digits in upper case
ByteOf(c) == CHOOSE n \in 0..255 : Chr(n) = c

QuoteByte(n) == <<"%", HexUpper[(n \div 16) + 1], HexUpper[(n % 16) + 1]>>

\* AppendQuotedArg
RECURSIVE QuoteArgFrom(_, _)
QuoteArgFrom(s, i) ==
  IF i > Len(s) THEN EmptyStr
  ELSE IF s[i] = " " THEN <<"+">> \o QuoteArgFrom(s, i + 1)
  ELSE IF ArgUnreserved(s[i]) THEN <<s[i]>> \o QuoteArgFrom(s, i + 1)
  ELSE QuoteByte(ByteOf(s[i])) \o QuoteArgFrom(s, i + 1)

QuoteArg(s) == QuoteArgFrom(s, 1)

\* Args.QueryString from the element i on
RECURSIVE ArgsStringFrom(_, _)
ArgsStringFrom(args, i) ==
  IF i > Len(args) THEN EmptyStr
  ELSE (IF i > 1 THEN <<"&">> ELSE EmptyStr)
       \o QuoteArg(args[i].key)
       \o (IF args[i].noValue THEN EmptyStr ELSE <<"=">> \o QuoteArg(args[i].value))
       \o ArgsStringFrom(args, i + 1)

ArgsString(args) == ArgsStringFrom(args, 1)

(***************************************************************************)
(* pkg/proxy: the client and the engine.                                   *)
(***************************************************************************)
googleDomains ==
  << <<"s", "s", "l", ".", "g", "o", "o", "g", "l", "e", "-", "a", "n", "a", "l", "y", "t", "i", "c", "s", ".", "c", "o", "m">>,
     <<"w", "w", "w", ".", "g", "o", "o", "g", "l", "e", "-", "a", "n", "a", "l", "y", "t", "i", "c", "s", ".", "c", "o", "m">>,
     <<"g", "o", "o", "g", "l", "e", "-", "a", "n", "a", "l", "y", "t", "i", "c", "s", ".", "c", "o", "m">>,
     <<"w", "w", "w", ".", "g", "o", "o", "g", "l", "e", "t", "a", "g", "m", "a", "n", "a", "g", "e", "r", ".", "c", "o", "m">>,
     <<"g", "o", "o", "g", "l", "e", "t", "a", "g", "m", "a", "n", "a", "g", "e", "r", ".", "c", "o", "m">> >>

\* shouldRetry_anyError: every error is retried
shouldRetry_anyError(err) == err # "ok"

\* shouldRetry: fasthttp.ErrTimeout and fasthttp.ErrConnectionClosed
shouldRetry(err) == err \in {"timeout", "closed"}

\* Client.Do from the given attempt on; outs[n] is what the n-th call of the
\* underlying client returns.  The result is the number of calls made, the
\* error returned ("none": nil) and the error it wraps, lastErr ("nil" when
\* Do returns nil or made no attempt).
DoFailed(attempt, lastErr) == [attempts |-> attempt, err |-> "upstream", cause |-> lastErr]

\* ClientDoFrom_firstErr: the error of the first attempt is kept as the cause
RECURSIVE ClientDoFrom_firstErr(_, _, _)
ClientDoFrom_firstErr(outs, attempt, retryCount) ==
  IF attempt > retryCount
    THEN DoFailed(attempt, IF attempt = 0 THEN "nil" ELSE outs[1])
  ELSE IF outs[attempt + 1] = "ok"
    THEN [attempts |-> attempt + 1, err |-> "none", cause |-> "nil"]
  ELSE IF ~ shouldRetry(outs[attempt + 1]) THEN DoFailed(attempt + 1, outs[1])
  ELSE ClientDoFrom_firstErr(outs, attempt + 1, retryCount)

RECURSIVE ClientDoFrom(_, _, _)
ClientDoFrom(outs, attempt, retryCount) ==
  IF attempt > retryCount
    THEN DoFailed(attempt, IF attempt = 0 THEN "nil" ELSE outs[attempt])
  ELSE IF outs[attempt + 1] = "ok"
    THEN [attempts |-> attempt + 1, err |-> "none", cause |-> "nil"]
  ELSE IF ~ shouldRetry(outs[attempt + 1]) THEN DoFailed(attempt + 1, outs[attempt + 1])
  ELSE ClientDoFrom(outs, attempt + 1, retryCount)

ClientDo(outs, retryCount) == ClientDoFrom(outs, 0, retryCount)

(***************************************************************************)
(* Client.Do step by step: the loop over the attempts, each a blocking     *)
(* call of the underlying client.                                          *)
(***************************************************************************)
\* what one call of the underlying fasthttp client returns: nil,
\* fasthttp.ErrTimeout, fasthttp.ErrConnectionClosed or another error
AttemptResults == {"ok", "timeout", "closed", "refused", "dial"}

MaxRetryCount == 3

\* NewClient: a client that is not in a call
NewClient(cfg) ==
  [pc |-> "idle", retryCount |-> cfg.UpstreamRetryCount, attempt |-> 0,
   outs |-> <<>>, sleeps |-> <<>>, err |-> "none", lastErr |-> "nil"]

\* LoopRuns_oneMore: the loop condition with one attempt too many
LoopRuns_oneMore(attempt, retryCount) == attempt <= retryCount + 1

\* the condition of the loop: attempt <= c.retryCount
LoopRuns(attempt, retryCount) == attempt <= retryCount

\* SleepBefore_constant: every retry waits retryDelay
SleepBefore_constant(c) == IF c.attempt > 0 THEN Append(c.sleeps, 1) ELSE c.sleeps

\* the sleeps so far and the one before this attempt, as multiples of
\* retryDelay
SleepBefore(c) == IF c.attempt > 0 THEN Append(c.sleeps, c.attempt) ELSE c.sleeps

\* the client after the call of the underlying client in the loop body has
\* returned out
DoAttempt(c, out) ==
  IF out = "ok"
    THEN [c EXCEPT !.pc = "done", !.outs = Append(@, out), !.err = "none"]
  ELSE IF ~ shouldRetry(out)
    THEN [c EXCEPT !.pc = "done", !.outs = Append(@, out),
                   !.err = "upstream", !.lastErr = out]
  ELSE [c EXCEPT !.pc = "loop", !.outs = Append(@, out),
                 !.attempt = @ + 1, !.lastErr = out]

\* strings.ReplaceAll for a non-empty old, from position i on
RECURSIVE ReplaceFrom(_, _, _, _)
ReplaceFrom(s, i, old, new) ==
  IF i > Len(s) THEN EmptyStr
  ELSE IF i + Len(old) - 1 <= Len(s) /\ SubSeq(s, i, i + Len(old) - 1) = old
    THEN new \o ReplaceFrom(s, i + Len(old), old, new)
  ELSE <<s[i]>> \o ReplaceFrom(s, i + 1, old, new)

ReplaceAll(s, old, new) == ReplaceFrom(s, 1, old, new)

\* ReplaceDomains_lastFirst: the loop runs through googleDomains from its
\* last domain to its first
RECURSIVE ReplaceDomains_lastFirst(_, _, _)
ReplaceDomains_lastFirst(bodyString, i, replacement) ==
  IF i > Len(googleDomains) THEN bodyString
  ELSE ReplaceDomains_lastFirst(ReplaceAll(bodyString, googleDomains[Len(googleDomains) + 1 - i],
                                           replacement),
                                i + 1, replacement)

\* the loop over googleDomains from the i-th domain on
RECURSIVE ReplaceDomains(_, _, _)
ReplaceDomains(bodyString, i, replacement) ==
  IF i > Len(googleDomains) THEN bodyString
  ELSE ReplaceDomains(ReplaceAll(bodyString, googleDomains[i], replacement), i + 1, replacement)

isJavaScript(contentType) ==
  \/ HasPrefix(contentType, <<"t", "e", "x", "t", "/", "j", "a", "v", "a", "s", "c", "r", "i", "p", "t">>)
  \/ HasPrefix(contentType, <<"a", "p", "p", "l", "i", "c", "a", "t", "i", "o", "n", "/", "j", "a", "v", "a", "s", "c", "r", "i", "p", "t">>)
  \/ HasPrefix(contentType, <<"a", "p", "p", "l", "i", "c", "a", "t", "i", "o", "n", "/", "x", "-", "j", "a", "v", "a", "s", "c", "r", "i", "p", "t">>)

\* filepath.Base, the trailing slashes removed
BaseOf(path) ==
  IF path = EmptyStr THEN <<"/">> ELSE Drop(path, LastIndex(path, <<"/">>) + 1)

\* filepath.Base
Base(path) ==
  IF path = EmptyStr THEN <<".">>
  ELSE BaseOf(Take(path, LastOf({i \in 1..Len(path) : path[i] # "/"})))

\* utf8.DecodeRuneInString: the first character of s and the number of bytes
\* it takes; a byte sequence that is not UTF-8 gives RuneError and 1
RuneError == 65533

\* the lowest and the highest second byte that may follow the first byte b0
AcceptLo(b0) == IF b0 = 224 THEN 160 ELSE IF b0 = 240 THEN 144 ELSE 128

AcceptHi(b0) == IF b0 = 237 THEN 159 ELSE IF b0 = 244 THEN 143 ELSE 191

IsContinuation(b) == 128 <= b /\ b <= 191

DecodeRune2(s, b0, b1) ==
  IF b1 < AcceptLo(b0) \/ b1 > AcceptHi(b0) THEN [r |-> RuneError, n |-> 1]
  ELSE [r |-> (b0 - 192) * 64 + (b1 - 128), n |-> 2]

DecodeRune3(s, b0, b1, b2) ==
  IF b1 < AcceptLo(b0) \/ b1 > AcceptHi(b0) \/ ~ IsContinuation(b2)
  THEN [r |-> RuneError, n |-> 1]
  ELSE [r |-> (b0 - 224) * 4096 + (b1 - 128) * 64 + (b2 - 128), n |-> 3]

DecodeRune4(s, b0, b1, b2, b3) ==
  IF b1 < AcceptLo(b0) \/ b1 > AcceptHi(b0) \/ ~ IsContinuation(b2) \/ ~ IsContinuation(b3)
  THEN [r |-> RuneError, n |-> 1]
  ELSE [r |-> (b0 - 240) * 262144 + (b1 - 128) * 4096 + (b2 - 128) * 64 + (b3 - 128),
        n |-> 4]

DecodeRuneFrom(s, b0) ==
  IF b0 < 128 THEN [r |-> b0, n |-> 1]
  ELSE IF 194 <= b0 /\ b0 <= 223 /\ Len(s) >= 2
    THEN DecodeRune2(s, b0, ByteOf(s[2]))
  ELSE IF 224 <= b0 /\ b0 <= 239 /\ Len(s) >= 3
    THEN DecodeRune3(s, b0, ByteOf(s[2]), ByteOf(s[3]))
  ELSE IF 240 <= b0 /\ b0 <= 244 /\ Len(s) >= 4
    THEN DecodeRune4(s, b0, ByteOf(s[2]), ByteOf(s[3]), ByteOf(s[4]))
  ELSE [r |-> RuneError, n |-> 1]

DecodeRune(s) ==
  IF s = EmptyStr THEN [r |-> RuneError, n |-> 0] ELSE DecodeRuneFrom(s, ByteOf(s[1]))

\* filepath.Match (path/filepath/match.go, not Windows).
\* scanChunk: the end of the chunk that starts at position k of p
RECURSIVE ScanEnd(_, _, _)
ScanEnd(p, k, inrange) ==
  IF k > Len(p) THEN Len(p)
  ELSE IF p[k] = "\\" THEN ScanEnd(p, IF k + 1 <= Len(p) THEN k + 2 ELSE k + 1, inrange)
  ELSE IF p[k] = "[" THEN ScanEnd(p, k + 1, TRUE)
  ELSE IF p[k] = "]" THEN ScanEnd(p, k + 1, FALSE)
  ELSE IF p[k] = "*" /\ ~ inrange THEN k - 1
  ELSE ScanEnd(p, k + 1, inrange)

\* the pattern after its leading stars
RECURSIVE SkipStars(_)
SkipStars(p) == IF p # EmptyStr /\ p[1] = "*" THEN SkipStars(Tail(p)) ELSE p

ChunkOf(star, p, n) == [star |-> star, chunk |-> Take(p, n), rest |-> Drop(p, n)]

scanChunk(pattern) ==
  ChunkOf(pattern # EmptyStr /\ pattern[1] = "*", SkipStars(pattern),
          ScanEnd(SkipStars(pattern), 1, FALSE))

BadEsc == [r |-> 0, chunk |-> EmptyStr, err |-> TRUE]

\* getEsc after the backslash: the character at the head of chunk
EscRune(chunk, d) ==
  [r |-> d.r, chunk |-> Drop(chunk, d.n),
   err |-> (d.r = RuneError /\ d.n = 1) \/ Len(chunk) = d.n]

\* a possibly escaped character of a character class
getEsc(chunk) ==
  IF chunk = EmptyStr \/ chunk[1] \in {"-", "]"} THEN BadEsc
  ELSE IF chunk[1] = "\\"
    THEN IF Len(chunk) = 1 THEN BadEsc ELSE EscRune(Tail(chunk), DecodeRune(Tail(chunk)))
  ELSE EscRune(chunk, DecodeRune(chunk))

BadClass == [match |-> FALSE, chunk |-> EmptyStr, err |-> TRUE]

\* the ranges of a character class up to its "]", r the character of the name
RECURSIVE ParseRanges(_, _, _, _)
RangeTo(lo, hi, r, match, nrange) ==
  IF hi.err THEN BadClass
  ELSE ParseRanges(hi.chunk, r, match \/ (lo.r <= r /\ r <= hi.r), nrange + 1)

RangeFrom(lo, r, match, nrange) ==
  IF lo.err THEN BadClass
  ELSE IF lo.chunk[1] = "-" THEN RangeTo(lo, getEsc(Tail(lo.chunk)), r, match, nrange)
  ELSE ParseRanges(lo.chunk, r, match \/ lo.r = r, nrange + 1)

ParseRanges(chunk, r, match, nrange) ==
  IF chunk # EmptyStr /\ chunk[1] = "]" /\ nrange > 0
  THEN [match |-> match, chunk |-> Tail(chunk), err |-> FALSE]
  ELSE RangeFrom(getEsc(chunk), r, match, nrange)

BadPattern == [rest |-> EmptyStr, ok |-> FALSE, err |-> TRUE]

\* matchChunk: chunk against the beginning of s; after the match has failed
\* the chunk is still checked for being well formed
RECURSIVE MatchChunkFrom(_, _, _)
ClassDone(cl, s, failed, negated) ==
  IF cl.err THEN BadPattern
  ELSE MatchChunkFrom(cl.chunk, s, failed \/ (cl.match = negated))

ClassOf(chunk, s, failed, d, negated) ==
  ClassDone(ParseRanges(IF negated THEN Tail(chunk) ELSE chunk,
                        IF failed THEN 0 ELSE d.r, FALSE, 0),
            IF failed THEN s ELSE Drop(s, d.n), failed, negated)

MatchChunkStep(chunk, s, failed) ==
  IF chunk[1] = "["
  THEN ClassOf(Tail(chunk), s, failed, DecodeRune(s),
               Len(chunk) > 1 /\ chunk[2] = "^")
  ELSE IF chunk[1] = "?"
    THEN IF failed THEN MatchChunkFrom(Tail(chunk), s, TRUE)
         ELSE MatchChunkFrom(Tail(chunk), Drop(s, DecodeRune(s).n), s[1] = "/")
  ELSE IF chunk[1] = "\\"
    THEN IF Len(chunk) = 1 THEN BadPattern
         ELSE IF failed THEN MatchChunkFrom(Drop(chunk, 2), s, TRUE)
         ELSE MatchChunkFrom(Drop(chunk, 2), Tail(s), chunk[2] # s[1])
  ELSE IF failed THEN MatchChunkFrom(Tail(chunk), s, TRUE)
  ELSE MatchChunkFrom(Tail(chunk), Tail(s), chunk[1] # s[1])

MatchChunkFrom(chunk, s, failed) ==
  IF chunk = EmptyStr
  THEN IF failed THEN [rest |-> EmptyStr, ok |-> FALSE, err |-> FALSE]
       ELSE [rest |-> s, ok |-> TRUE, err |-> FALSE]
  ELSE MatchChunkStep(chunk, s, failed \/ s = EmptyStr)

matchChunk(chunk, s) == MatchChunkFrom(chunk, s, FALSE)

\* filepath.Match(pattern, name), the error dropped as isCacheable drops it:
\* a malformed pattern matches nothing
RECURSIVE Match(_, _)
RECURSIVE StarLoop(_, _, _)
StarFound(sc, name, i, m) ==
  IF m.ok
  THEN IF sc.rest = EmptyStr /\ m.rest # EmptyStr THEN StarLoop(sc, name, i + 1)
       ELSE Match(sc.rest, m.rest)
  ELSE IF m.err THEN FALSE
  ELSE StarLoop(sc, name, i + 1)

\* the match of the chunk is looked for after skipping i + 1 bytes of name
StarLoop(sc, name, i) ==
  IF i < Len(name) /\ name[i + 1] # "/"
  THEN StarFound(sc, name, i, matchChunk(sc.chunk, Drop(name, i + 1)))
  ELSE FALSE

MatchChunkAt(sc, name, m) ==
  IF m.ok /\ (m.rest = EmptyStr \/ sc.rest # EmptyStr) THEN Match(sc.rest, m.rest)
  ELSE IF m.err THEN FALSE
  ELSE IF sc.star THEN StarLoop(sc, name, 0)
  ELSE FALSE

MatchScanned(sc, name) ==
  IF sc.star /\ sc.chunk = EmptyStr THEN ~ Contains(name, <<"/">>)
  ELSE MatchChunkAt(sc, name, matchChunk(sc.chunk, name))

Match(pattern, name) ==
  IF pattern = EmptyStr THEN name = EmptyStr ELSE MatchScanned(scanChunk(pattern), name)

isCacheableParsed(cfg, parsedURI) ==
  ~ parsedURI.err /\ Match(cfg.CacheKeyPattern, Base(parsedURI.Path))

\* isCacheable
isCacheable(cfg, uri) == cfg.CacheEnabled /\ isCacheableParsed(cfg, Parse(uri))

getCacheKey(uri) == uri

NoUpstreamRequest == [none |-> TRUE]

NoResponse == [none |-> TRUE]

\* URI.SetScheme(upstreamURL.Scheme); fasthttp keeps the scheme in lower case
UpstreamScheme(upstreamURL, parsedURI) == ToLower(upstreamURL.Scheme)

\* (mutant) a host in the request URI takes precedence over the configured one
UpstreamHost_fromRequestURI(upstreamURL, parsedURI) ==
  IF parsedURI.Host # EmptyStr THEN ToLower(parsedURI.Host) ELSE ToLower(upstreamURL.Host)

\* URI.SetHost(upstreamURL.Host); fasthttp keeps the host in lower case
UpstreamHost(upstreamURL, parsedURI) == ToLower(upstreamURL.Host)

\* URI.QueryArgs(): the query string is parsed on first use
QueryArgs(q) == IF q.parsed THEN q ELSE [q EXCEPT !.parsed = TRUE, !.args = ParseArgs(q.raw)]

AddArg(q, key, value) == [q EXCEPT !.args = ArgsAdd(@, key, value)]

DelArg(q, key) == [q EXCEPT !.args = ArgsDel(@, key)]

\* the loop over GetInjectHeaders() from the i-th mapping on
RECURSIVE InjectFrom(_, _, _, _)
InjectFrom(q, mappings, i, headers) ==
  IF i > Len(mappings) THEN q
  ELSE IF mappings[i].HeaderName \in DOMAIN headers
          /\ headers[mappings[i].HeaderName] # EmptyStr
    THEN InjectFrom(AddArg(QueryArgs(q), mappings[i].ParamName, headers[mappings[i].HeaderName]),
                    mappings, i + 1, headers)
  ELSE InjectFrom(q, mappings, i + 1, headers)

\* the loop over GetSkipParams() from the i-th parameter on
RECURSIVE SkipFrom(_, _, _)
SkipFrom(q, params, i) ==
  IF i > Len(params) THEN q ELSE SkipFrom(DelArg(QueryArgs(q), params[i]), params, i + 1)

\* the query string of URI.RequestURI(): the arguments if they were parsed
\* and are not empty, the query string as it was set otherwise
RequestQuery(q) == IF q.parsed /\ Len(q.args) > 0 THEN ArgsString(q.args) ELSE q.raw

ToUpperChar(c) ==
  IF \E i \in 1..26 : LowerCase[i] = c THEN UpperCase[CHOOSE i \in 1..26 : LowerCase[i] = c] ELSE c

\* the loop of fasthttp's normalizeHeaderKey from the i-th byte on: the byte
\* after a "-" in upper case, the others in lower case
RECURSIVE NormalizeFrom(_, _)
NormalizeFrom(b, i) ==
  IF i > Len(b) THEN EmptyStr
  ELSE IF b[i] # "-" THEN <<ToLowerChar(b[i])>> \o NormalizeFrom(b, i + 1)
  ELSE IF i + 1 > Len(b) THEN <<"-">>
  ELSE <<"-", ToUpperChar(b[i + 1])>> \o NormalizeFrom(b, i + 2)

\* normalizeHeaderKey: the first byte in upper case, then the loop
NormalizeHeaderKey(key) ==
  IF key = EmptyStr THEN key ELSE <<ToUpperChar(key[1])>> \o NormalizeFrom(key, 2)

\* the orders in which a range statement can visit the keys of a map
RECURSIVE Orders(_)
Orders(S) ==
  IF S = {} THEN {<<>>}
  ELSE UNION {{<<k>> \o rest : rest \in Orders(S \ {k})} : k \in S}

\* the header names fasthttp keeps apart from the others
HostKey == <<"H", "o", "s", "t">>

UserAgentKey == <<"U", "s", "e", "r", "-", "A", "g", "e", "n", "t">>

ContentTypeKey == <<"C", "o", "n", "t", "e", "n", "t", "-", "T", "y", "p", "e">>

ContentLengthKey == <<"C", "o", "n", "t", "e", "n", "t", "-", "L", "e", "n", "g", "t", "h">>

ConnectionKey == <<"C", "o", "n", "n", "e", "c", "t", "i", "o", "n">>

CookieKey == <<"C", "o", "o", "k", "i", "e">>

TransferEncodingKey == <<"T", "r", "a", "n", "s", "f", "e", "r", "-", "E", "n", "c", "o", "d", "i", "n", "g">>

TrailerKey == <<"T", "r", "a", "i", "l", "e", "r">>

\* removeNewLines: Set stores a value with its line breaks turned into spaces
removeNewLines(value) ==
  [i \in 1..Len(value) |-> IF value[i] \in {"x0a", "x0d"} THEN " " ELSE value[i]]

\* parseContentLength: decimal digits and nothing else, as many as fit an int
parseContentLength(value) ==
  [err |-> ~ (value # EmptyStr /\ Len(value) <= 18
              /\ \A i \in 1..Len(value) : IsDigit(value[i]))]

RECURSIVE TrimLeftBlanks(_)
TrimLeftBlanks(s) == IF s # EmptyStr /\ s[1] = " " THEN TrimLeftBlanks(Drop(s, 1)) ELSE s

RECURSIVE TrimRightBlanks(_)
TrimRightBlanks(s) ==
  IF s # EmptyStr /\ s[Len(s)] = " " THEN TrimRightBlanks(Take(s, Len(s) - 1)) ELSE s

SkipQuotes(s) ==
  IF Len(s) > 1 /\ s[1] = "\"" /\ s[Len(s)] = "\"" THEN SubSeq(s, 2, Len(s) - 1) ELSE s

\* decodeCookieArg: the blanks around src are dropped, and with skipQuotes
\* the double quotes around what is left
decodeCookieArg(src, skipQuotes) ==
  IF skipQuotes THEN SkipQuotes(TrimRightBlanks(TrimLeftBlanks(src)))
  ELSE TrimRightBlanks(TrimLeftBlanks(src))

\* cookieScanner.next on one element of the value, c its cut at the first "="
ScanCookie(c) ==
  IF c.found
  THEN [key |-> decodeCookieArg(c.before, FALSE), value |-> decodeCookieArg(c.after, TRUE)]
  ELSE [key |-> EmptyStr, value |-> decodeCookieArg(c.before, TRUE)]

\* parseRequestCookies over the elements parts[i..]: a cookie without key
\* and value is dropped
RECURSIVE parseRequestCookiesFrom(_, _)
KeepCookie(parts, i, kv) ==
  IF kv.key = EmptyStr /\ kv.value = EmptyStr THEN parseRequestCookiesFrom(parts, i + 1)
  ELSE <<kv>> \o parseRequestCookiesFrom(parts, i + 1)

parseRequestCookiesFrom(parts, i) ==
  IF i > Len(parts) THEN <<>> ELSE KeepCookie(parts, i, ScanCookie(Cut(parts[i], <<"=">>)))

\* parseRequestCookies: the cookies of src are appended to cookies
parseRequestCookies(cookies, src) == cookies \o parseRequestCookiesFrom(Split(src, <<";">>), 1)

\* appendRequestCookieBytes from the i-th cookie on
RECURSIVE appendRequestCookieBytesFrom(_, _)
appendRequestCookieBytesFrom(cookies, i) ==
  IF i > Len(cookies) THEN EmptyStr
  ELSE (IF cookies[i].key # EmptyStr THEN cookies[i].key \o <<"=">> ELSE EmptyStr)
       \o cookies[i].value
       \o (IF i < Len(cookies) THEN <<";", " ">> ELSE EmptyStr)
       \o appendRequestCookieBytesFrom(cookies, i + 1)

appendRequestCookieBytes(cookies) == appendRequestCookieBytesFrom(cookies, 1)

\* the header names isBadTrailer refuses, in lower case
BadTrailers ==
  {<<"a", "u", "t", "h", "o", "r", "i", "z", "a", "t", "i", "o", "n">>,
   <<"c", "o", "n", "t", "e", "n", "t", "-", "e", "n", "c", "o", "d", "i", "n", "g">>,
   <<"c", "o", "n", "t", "e", "n", "t", "-", "l", "e", "n", "g", "t", "h">>,
   <<"c", "o", "n", "t", "e", "n", "t", "-", "r", "a", "n", "g", "e">>,
   <<"c", "o", "n", "n", "e", "c", "t", "i", "o", "n">>,
   <<"e", "x", "p", "e", "c", "t">>,
   <<"h", "o", "s", "t">>,
   <<"k", "e", "e", "p", "-", "a", "l", "i", "v", "e">>,
   <<"m", "a", "x", "-", "f", "o", "r", "w", "a", "r", "d", "s">>,
   <<"p", "r", "o", "x", "y", "-", "a", "u", "t", "h", "e", "n", "t", "i", "c", "a", "t", "e">>,
   <<"p", "r", "o", "x", "y", "-", "a", "u", "t", "h", "o", "r", "i", "z", "a", "t", "i", "o", "n">>,
   <<"r", "a", "n", "g", "e">>,
   <<"t", "e">>,
   <<"t", "r", "a", "i", "l", "e", "r">>,
   <<"t", "r", "a", "n", "s", "f", "e", "r", "-", "e", "n", "c", "o", "d", "i", "n", "g">>,
   <<"w", "w", "w", "-", "a", "u", "t", "h", "e", "n", "t", "i", "c", "a", "t", "e">>}

isBadTrailer(key) == key = EmptyStr \/ ToLower(key) \in BadTrailers

\* the elements of a Trailer value that AddTrailerBytes goes through: those
\* between its commas, the blanks around them dropped; nothing follows a
\* comma at the end
TrailerParts(trailer) ==
  IF trailer = EmptyStr THEN <<>>
  ELSE IF trailer[Len(trailer)] = ","
  THEN [i \in DOMAIN Split(Take(trailer, Len(trailer) - 1), <<",">>) |->
          TrimRightBlanks(TrimLeftBlanks(Split(Take(trailer, Len(trailer) - 1), <<",">>)[i]))]
  ELSE [i \in DOMAIN Split(trailer, <<",">>) |->
          TrimRightBlanks(TrimLeftBlanks(Split(trailer, <<",">>)[i]))]

\* SetTrailerBytes: the names kept, normalized unless they hold a blank
RECURSIVE TrailerKeysFrom(_, _)
TrailerKeysFrom(parts, i) ==
  IF i > Len(parts) THEN <<>>
  ELSE IF isBadTrailer(parts[i]) THEN TrailerKeysFrom(parts, i + 1)
  ELSE IF Contains(parts[i], <<" ">>) THEN <<parts[i]>> \o TrailerKeysFrom(parts, i + 1)
  ELSE <<NormalizeHeaderKey(parts[i])>> \o TrailerKeysFrom(parts, i + 1)

\* appendArgsKeyBytes(dst, h.trailer, ", ")
RECURSIVE appendArgsKeyBytesFrom(_, _)
appendArgsKeyBytesFrom(trailer, i) ==
  IF i > Len(trailer) THEN EmptyStr
  ELSE trailer[i] \o (IF i < Len(trailer) THEN <<",", " ">> ELSE EmptyStr)
       \o appendArgsKeyBytesFrom(trailer, i + 1)

\* the Trailer header as the request carries it once SetTrailerBytes has
\* taken the value
TrailerValue(value) == appendArgsKeyBytesFrom(TrailerKeysFrom(TrailerParts(value), 1), 1)

\* the keys of the map that Set stores under the name k
SetKeys(headers, k) == {n \in DOMAIN headers : NormalizeHeaderKey(n) = k}

\* the cookies after Set has taken the values at the keys order[i..]
RECURSIVE SetCookies(_, _, _, _)
SetCookies(headers, order, i, cookies) ==
  IF i > Len(order) THEN cookies
  ELSE SetCookies(headers, order, i + 1,
                  parseRequestCookies(cookies, removeNewLines(headers[order[i]])))

\* RequestHeader.Set through setSpecialHeader: the values the request can
\* carry under the name k once the loop over the map has ended.  There is
\* one, unless two keys of the map differ only in case, where the order of
\* the iteration over the map decides.  Transfer-Encoding is never stored,
\* a Content-Length that does not parse is dropped, the cookies are parsed
\* and written anew, and so are the names of a Trailer; the Host header is
\* the host of the request URI when the request is written.
Stored(headers, k, host) ==
  IF k = HostKey THEN {host}
  ELSE IF k = TransferEncodingKey THEN {}
  ELSE IF k = ContentLengthKey
  THEN {removeNewLines(headers[n]) :
          n \in {m \in SetKeys(headers, k) :
                  ~ parseContentLength(removeNewLines(headers[m])).err}}
  ELSE IF k = CookieKey
  THEN {appendRequestCookieBytes(SetCookies(headers, order, 1, <<>>)) :
          order \in Orders(SetKeys(headers, k))} \ {EmptyStr}
  ELSE IF k = TrailerKey
  THEN {TrailerValue(removeNewLines(headers[n])) : n \in SetKeys(headers, k)} \ {EmptyStr}
  ELSE {removeNewLines(headers[n]) : n \in SetKeys(headers, k)}

\* upstreamReq.Header.Set(key, value) for every entry of the map: the keys
\* are stored in their normalized form, and under each name are the values
\* Set can leave there
SetHeaders(headers, host) ==
  [k \in {x \in {NormalizeHeaderKey(n) : n \in DOMAIN headers} \cup {HostKey} :
            Stored(headers, x, host) # {}} |->
     Stored(headers, k, host)]

\* the upstream request ProxyRequest builds
buildRequest(cfg, upstreamURL, parsedURI, headers) ==
  [Scheme |-> UpstreamScheme(upstreamURL, parsedURI),
   Host |-> UpstreamHost(upstreamURL, parsedURI),
   Path |-> normalizePath(parsedURI.Path),
   QueryString |->
     RequestQuery(SkipFrom(InjectFrom([raw |-> parsedURI.RawQuery, parsed |-> FALSE, args |-> <<>>],
                                      GetInjectHeaders(cfg), 1, headers),
                           GetSkipParams(cfg), 1)),
   Headers |-> SetHeaders(headers, UpstreamHost(upstreamURL, parsedURI))]

\* Get by a single caller: the result is looked up and the counter bumped
GetCount(c, found) ==
  IF found THEN [c EXCEPT !.stats.Hits = @ + 1] ELSE [c EXCEPT !.stats.Misses = @ + 1]

\* Set by a single caller: the caches its eviction loop can leave, then the
\* entry stored (the loop does not end while the oldest key is the empty one)
RECURSIVE SetResults(_, _, _, _)
SetResults(c, key, p, t) ==
  IF MustEvict(c, Len(p.Data))
  THEN UNION {SetResults(evictOldest(c, k), key, p, t) : k \in OldestKeys(c)}
  ELSE {SetStore(c, key, NewEntry(c, p, t))}

\* where a call of ProxyRequest stands: outcome "pending" while client.Do
\* waits for the upstream, and what the call has come to otherwise
Outcome(kind, resp, req, attempts, c) ==
  [outcome |-> kind, resp |-> resp, upstreamReq |-> req, attempts |-> attempts, cache |-> c]

\* ProxyRequest from the parsing of the upstream origin to the call of client.Do
proxyUpstream(cfg, c, parsedURI, upstreamURL, headers) ==
  IF upstreamURL.err
  THEN Outcome("config_error", NoResponse, NoUpstreamRequest, 0, c)
  ELSE Outcome("pending", NoResponse, buildRequest(cfg, upstreamURL, parsedURI, headers), 0, c)

\* ProxyRequest from the cache lookup on; got is the result of Get
proxyLookup(cfg, c, got, parsedURI, headers) ==
  IF got.found
  THEN Outcome("hit",
               [StatusCode |-> got.entry.StatusCode, Body |-> got.entry.Data,
                ContentType |-> got.entry.ContentType],
               NoUpstreamRequest, 0, GetCount(c, TRUE))
  ELSE proxyUpstream(cfg, GetCount(c, FALSE), parsedURI, GetParsedGoogleOrigin(cfg), headers)

\* proxyCache_noLookup: the upstream is called without a look into the cache
proxyCache_noLookup(cfg, c, t, sanitizedURI, cacheable, parsedURI, headers) ==
  proxyUpstream(cfg, c, parsedURI, GetParsedGoogleOrigin(cfg), headers)

\* ProxyRequest from the test s.cache != nil && s.isCacheable(sanitizedURI) on
proxyCache(cfg, c, t, sanitizedURI, cacheable, parsedURI, headers) ==
  IF cacheable
  THEN proxyLookup(cfg, c, GetResult(c, getCacheKey(sanitizedURI), t), parsedURI, headers)
  ELSE proxyUpstream(cfg, c, parsedURI, GetParsedGoogleOrigin(cfg), headers)

\* ProxyRequest from parsedURI, _ := url.Parse(sanitizedURI) on: the error is
\* dropped, and parsedURI is nil when there is one
proxyParsed(cfg, c, t, sanitizedURI, parsedURI, headers) ==
  IF parsedURI.err
  THEN Outcome("panic", NoResponse, NoUpstreamRequest, 0, c)
  ELSE IF ~ isAllowedPath(parsedURI.Path)
  THEN Outcome("validation_error", NoResponse, NoUpstreamRequest, 0, c)
  ELSE proxyCache(cfg, c, t, sanitizedURI, isCacheable(cfg, sanitizedURI), parsedURI, headers)

\* Service.ProxyRequest up to the call of client.Do, for a service with
\* configuration cfg and cache c at time t; res is what sanitizeRequestURI
\* made of the request URI
proxySanitized(cfg, c, t, res, headers) ==
  IF ~ res.ok
  THEN Outcome("validation_error", NoResponse, NoUpstreamRequest, 0, c)
  ELSE proxyParsed(cfg, c, t, res.uri, Parse(res.uri), headers)

\* proxyStore_anyStatus: the response is stored whatever its status
proxyStore_anyStatus(c, t, key, cacheable, req, attempts, resp) ==
  IF cacheable
  THEN {Outcome("ok", resp, req, attempts, c2) :
          c2 \in SetResults(c, key,
                            [Data |-> resp.Body, ContentType |-> resp.ContentType,
                             StatusCode |-> resp.StatusCode], t)}
  ELSE {Outcome("ok", resp, req, attempts, c)}

\* ProxyRequest from the store into the cache on: the outcomes it can come to
proxyStore(c, t, key, cacheable, req, attempts, resp) ==
  IF cacheable /\ resp.StatusCode = 200
  THEN {Outcome("ok", resp, req, attempts, c2) :
          c2 \in SetResults(c, key,
                            [Data |-> resp.Body, ContentType |-> resp.ContentType,
                             StatusCode |-> resp.StatusCode], t)}
  ELSE {Outcome("ok", resp, req, attempts, c)}

\* ProxyRequest from the post-processing of the body on
proxyRewrite(cfg, c, t, key, cacheable, req, attempts, host, up) ==
  proxyStore(c, t, key, cacheable, req, attempts,
             [StatusCode |-> up.StatusCode,
              Body |-> IF isJavaScript(up.ContentType)
                       THEN ReplaceDomains(up.Body, 1, host \o cfg.RoutePrefix)
                       ELSE up.Body,
              ContentType |-> up.ContentType])

\* ProxyRequest from the return of client.Do on, the upstream behaving as up
proxyDone(cfg, c, t, key, cacheable, req, done, host, up) ==
  IF done.err # "none"
  THEN {Outcome("upstream_error", NoResponse, req, done.attempts, c)}
  ELSE IF up.ContentEncoding \in {"gzip", "br", "deflate"} /\ up.decodeErr
  THEN {Outcome("proxy_error", NoResponse, req, done.attempts, c)}
  ELSE proxyRewrite(cfg, c, t, key, cacheable, req, done.attempts, host, up)

\* the sanitized request URI of a call the validator has let through
SanitizedURI(uri) == sanitizeRequestURI(uri).uri

(***************************************************************************)
(* The engine's configurations and inputs.                                 *)
(***************************************************************************)
\* Config.CacheMaxSize of the engine's cache, in bytes: one rewritten script
\* fits, two do not
EngineMaxSize == 8

\* a service with the cache on and one without, as Config.Validate accepts
\* them; the second names the host of its origin in upper case
Configs ==
  {[GoogleOrigin |-> <<"h", "t", "t", "p", "s", ":", "/", "/", "w", "w", "w", ".", "g", "o", "o", "g", "l", "e", "-", "a", "n", "a", "l", "y", "t", "i", "c", "s", ".", "c", "o", "m">>,
    RoutePrefix |-> EmptyStr, UpstreamRetryCount |-> 1,
    InjectParamsFromReqHeaders |-> <<"u", "i", "p">>, SkipParamsFromReqHeaders |-> EmptyStr,
    CacheEnabled |-> TRUE, CacheTTL |-> TTL, CacheMaxSize |-> EngineMaxSize,
    CacheKeyPattern |-> <<"*", ".", "j", "s">>,
    RateLimitEnabled |-> TRUE, RateLimitRPS |-> 1, RateLimitBurst |-> 1,
    EnableCORS |-> TRUE, CORSAllowOrigins |-> "*", EnableSecurityHeaders |-> TRUE,
    MetricsEnabled |-> TRUE, MetricsPath |-> <<"/", "m", "e", "t", "r", "i", "c", "s">>],
   [GoogleOrigin |-> <<"h", "t", "t", "p", ":", "/", "/", "G", ":", "8">>,
    RoutePrefix |-> <<"/", "p">>, UpstreamRetryCount |-> 0,
    InjectParamsFromReqHeaders |-> EmptyStr, SkipParamsFromReqHeaders |-> <<"v">>,
    CacheEnabled |-> FALSE, CacheTTL |-> TTL, CacheMaxSize |-> EngineMaxSize,
    CacheKeyPattern |-> <<"*", ".", "j", "s">>,
    RateLimitEnabled |-> FALSE, RateLimitRPS |-> 1, RateLimitBurst |-> 1,
    EnableCORS |-> FALSE, CORSAllowOrigins |-> "", EnableSecurityHeaders |-> TRUE,
    MetricsEnabled |-> FALSE, MetricsPath |-> <<"/", "m", "e", "t", "r", "i", "c", "s">>]}

\* the configuration of the specifications that run no engine
DefaultConfig == CHOOSE cfg \in Configs : cfg.CacheEnabled

\* request URIs: a script, a hit with a query, a path off the allow-list, an
\* attack of TestSSRFPrevention, a percent-encoded slash and a percent-encoded
\* percent sign
EngineURIs ==
  {<<"/", "g", "a", ".", "j", "s">>,
   <<"/", "c", "o", "l", "l", "e", "c", "t", "?", "v", "=", "1">>,
   <<"/", "a", "d", "m", "i", "n">>,
   <<"h", "t", "t", "p", ":", "/", "/", "e", "/", "g", "a", ".", "j", "s">>,
   <<"/", "%", "2", "f", "e", "/", "g", "a", ".", "j", "s">>,
   <<"/", "%", "2", "5">>}

NoHeaders == [k \in {} |-> EmptyStr]

\* the request headers and the public host of a call: a plain one, and one
\* with a Host header, the client's address, a cookie, a Transfer-Encoding, a
\* Content-Length that is no number, and a host of its own
EngineCallers ==
  {[headers |-> NoHeaders, host |-> <<"h">>],
   [headers |-> (<<"H", "o", "s", "t">> :> <<"e", ".", "c">>) @@ (<<"u", "i", "p">> :> <<"9">>)
                @@ (<<"C", "o", "o", "k", "i", "e">> :> <<"a", "=", "b", ";", " ", " ", "c", "=", "d">>)
                @@ (<<"T", "r", "a", "n", "s", "f", "e", "r", "-", "E", "n", "c", "o", "d", "i", "n", "g">> :> <<"c", "h", "u", "n", "k", "e", "d">>)
                @@ (<<"C", "o", "n", "t", "e", "n", "t", "-", "L", "e", "n", "g", "t", "h">> :> <<"x">>),
    host |-> <<"e", ".", "c">>]}

ScriptBody == <<"/", "/", "w", "w", "w", ".", "g", "o", "o", "g", "l", "e", "-", "a", "n", "a", "l", "y", "t", "i", "c", "s", ".", "c", "o", "m", "/", "c">>

UpstreamResponse(outs, status, contentType, encoding, body, decodeErr) ==
  [outs |-> outs, StatusCode |-> status, ContentType |-> contentType,
   ContentEncoding |-> encoding, Body |-> body, decodeErr |-> decodeErr]

\* what the upstream does: per attempt of the underlying client its result,
\* and the response of the attempt that succeeds
UpstreamBehaviours ==
  {UpstreamResponse(<<"ok", "ok">>, 200, CtJavaScript, "", ScriptBody, FALSE),
   UpstreamResponse(<<"timeout", "ok">>, 200, CtGif, "", <<"x">>, FALSE),
   UpstreamResponse(<<"refused", "ok">>, 200, CtGif, "", EmptyStr, FALSE),
   UpstreamResponse(<<"ok", "ok">>, 404, CtJavaScript, "", <<"n">>, FALSE),
   UpstreamResponse(<<"ok", "ok">>, 200, CtJavaScript, "gzip", EmptyStr, TRUE)}

NoRequest == [outcome |-> "none", seq |-> 0, pc |-> "done"]

\* the statistics of the cache the call has read for the metrics
NoStats == [none |-> TRUE]

\* what client.Do made of the call: the results of the attempts made, the
\* error returned and the error it wraps
NoDo == [none |-> TRUE]

DoResult(done, up) ==
  [tried |-> SubSeq(up.outs, 1, done.attempts), err |-> done.err, cause |-> done.cause]

\* what the engine has read from the upstream response it returns to its
\* caller: the body after getBodyString, and the content type
Fetched(up) == [Body |-> up.Body, ContentType |-> up.ContentType]

\* what is kept of the call before the last one: its request URI and what it
\* returned
Finished(r) ==
  IF r.outcome = "none" THEN r
  ELSE [outcome |-> r.outcome, seq |-> r.seq, uri |-> r.uri, resp |-> r.resp]

\* calls of ProxyRequest are counted up to MaxRequests: one that fills the
\* cache and one that finds it filled
MaxRequests == Cardinality(Workers)

(***************************************************************************)
(* The rate limiter: one token bucket for every client identity.  The      *)
(* clock counts ticks, TicksPerSecond of them to the second, and a bucket  *)
(* holds its tokens in units of 1/TicksPerSecond token, so that the        *)
(* product elapsed * rps is exact.  The rounding of float64 is left out.   *)
(***************************************************************************)
TicksPerSecond == 2

\* time.NewTicker(1 * time.Minute) and 5*time.Minute, in seconds
CleanupInterval == 60

IdleLimit == 300

Identities == {<<"1", "0", ".", "0", ".", "0", ".", "1">>, <<"1", "0", ".", "0", ".", "0", ".", "2">>}

NilBucket == [tokens |-> 0, lastUpdate |-> 0]

\* ratelimit.New; main builds no limiter when RateLimitEnabled is false
NoLimiter == [enabled |-> FALSE]

NewLimiter(rps, burst) ==
  [enabled |-> TRUE, buckets |-> [ip \in {} |-> NilBucket], rps |-> rps, burst |-> burst]

\* float64(l.burst) in the unit of the token count
Full(l) == l.burst * TicksPerSecond

\* the bucket of ip, created full when there is none
LookupBucket(l, ip, t) ==
  IF ip \in DOMAIN l.buckets THEN l.buckets[ip]
  ELSE [tokens |-> Full(l), lastUpdate |-> t]

\* Refill_uncapped: the refill without the cap at burst
Refill_uncapped(l, b, t) ==
  [tokens |-> b.tokens + (t - b.lastUpdate) * l.rps, lastUpdate |-> t]

\* Refill_noStamp: the refill that leaves lastUpdate as it was
Refill_noStamp(l, b, t) ==
  [tokens |-> SetMin({Full(l), b.tokens + (t - b.lastUpdate) * l.rps}),
   lastUpdate |-> b.lastUpdate]

\* tokens += elapsed * rps, capped at burst; lastUpdate = now
Refill(l, b, t) ==
  [tokens |-> SetMin({Full(l), b.tokens + (t - b.lastUpdate) * l.rps}),
   lastUpdate |-> t]

HasToken(b) == b.tokens >= TicksPerSecond

\* Spend_free: a granted call that takes no token
Spend_free(b) == b

\* b.tokens -= 1.0 when there is a token
Spend(b) ==
  IF HasToken(b) THEN [b EXCEPT !.tokens = @ - TicksPerSecond] ELSE b

\* AllowBucket_shared: one bucket for all identities
AllowBucket_shared(l, ip, b) ==
  [limiter |-> [l EXCEPT !.buckets = [x \in (DOMAIN @) \cup {ip} |-> Spend(b)]],
   ok |-> HasToken(b)]

\* the bucket is stored under ip with the token taken; the result of Allow
AllowBucket(l, ip, b) ==
  [limiter |-> [l EXCEPT !.buckets = MapPut(@, ip, Spend(b))], ok |-> HasToken(b)]

\* Limiter.Allow(ip) at time t: the limiter after the call and the result
Allow(l, ip, t) == AllowBucket(l, ip, Refill(l, LookupBucket(l, ip, t), t))

\* StaleBuckets_atLimit: a bucket is stale from the idle limit on
StaleBuckets_atLimit(l, t) ==
  {ip \in DOMAIN l.buckets : t - l.buckets[ip].lastUpdate >= IdleLimit * TicksPerSecond}

\* one pass of Limiter.cleanup at time t
StaleBuckets(l, t) ==
  {ip \in DOMAIN l.buckets : t - l.buckets[ip].lastUpdate > IdleLimit * TicksPerSecond}

cleanup(l, t) ==
  [l EXCEPT !.buckets = [ip \in (DOMAIN @) \ StaleBuckets(l, t) |-> @[ip]]]

\* RateLimitRPS and RateLimitBurst as Config.Validate accepts them
LimiterConfigs == {[rps |-> 1, burst |-> 1], [rps |-> 1, burst |-> 2], [rps |-> 3, burst |-> 2]}

\* the clock advances by one tick or to the janitor's next minute; single
\* ticks are taken up to FineTicks past a minute, and the clock stops one
\* minute after a bucket left at time 0 has become stale
FineTicks == 1

MaxClock == (IdleLimit + CleanupInterval) * TicksPerSecond + FineTicks

\* a burst that a rate of one token per second does not refill before the
\* janitor's first pass over a stale bucket
WindowConfig == [rps |-> 1, burst |-> IdleLimit + CleanupInterval + 1]

WindowIdentity == CHOOSE ip \in Identities : TRUE

\* what the callers of Allow have seen: for every identity the calls and the
\* granted calls at the present instant, and the granted calls since time 0
NoAllowLog ==
  [calls |-> [ip \in Identities |-> 0], grants |-> [ip \in Identities |-> 0],
   total |-> [ip \in Identities |-> 0]]

LogAllow(log, ip, ok) ==
  [calls |-> [log.calls EXCEPT ![ip] = @ + 1],
   grants |-> [log.grants EXCEPT ![ip] = IF ok THEN @ + 1 ELSE @],
   total |-> [log.total EXCEPT ![ip] = IF ok THEN @ + 1 ELSE @]]

LogInstant(log) ==
  [log EXCEPT !.calls = NoAllowLog.calls, !.grants = NoAllowLog.grants]

(***************************************************************************)
(* The HTTP edge: the middleware chain of Setup, of which the Metrics and  *)
(* RateLimit middleware and the Recovery of a panic are followed, the      *)
(* routes, and Handler.Proxy.  Requests are taken one at a time.           *)
(***************************************************************************)
CtJSON == <<"a", "p", "p", "l", "i", "c", "a", "t", "i", "o", "n", "/", "j", "s", "o", "n">>

\* the content type fasthttp writes when the handler has set none
CtText == <<"t", "e", "x", "t", "/", "p", "l", "a", "i", "n", ";", " ", "c", "h", "a", "r", "s", "e", "t", "=", "u", "t", "f", "-", "8">>

\* the content type Handler.Metrics sets
CtPrometheus == <<"t", "e", "x", "t", "/", "p", "l", "a", "i", "n", ";", " ", "v", "e", "r", "s", "i", "o", "n", "=", "0", ".", "0", ".", "4">>

\* c.JSON(fiber.Map{"error": msg})
JSONError(msg) ==
  <<"{", "\"", "e", "r", "r", "o", "r", "\"", ":", "\"">> \o msg \o <<"\"", "}">>

RateLimitMessage ==
  <<"R", "a", "t", "e", " ", "l", "i", "m", "i", "t", " ", "e", "x", "c", "e", "e", "d", "e", "d">>

ProxyFailedMessage ==
  <<"F", "a", "i", "l", "e", "d", " ", "t", "o", " ", "p", "r", "o", "x", "y", " ", "r", "e", "q", "u", "e", "s", "t">>

InternalErrorMessage ==
  <<"I", "n", "t", "e", "r", "n", "a", "l", " ", "s", "e", "r", "v", "e", "r", " ", "e", "r", "r", "o", "r">>

\* a response of the edge and the route handler that was reached ("none"
\* when the chain ended before the routes); proxyBy is the X-Proxy-By header
EdgeResponse(status, contentType, body, handler, proxyBy) ==
  [StatusCode |-> status, ContentType |-> contentType, Body |-> body,
   handler |-> handler, proxyBy |-> proxyBy, headers |-> [h \in {} |-> ""]]

\* the CORS middleware on a request it passes on: the headers it sets stay
\* on the response the rest of the chain makes
CORS(cfg, resp) ==
  IF ~ cfg.EnableCORS THEN resp
  ELSE [resp EXCEPT !.headers =
          ("Access-Control-Allow-Origin" :>
             (IF cfg.CORSAllowOrigins = "" THEN "*" ELSE cfg.CORSAllowOrigins))
          @@ ("Access-Control-Allow-Methods" :> "GET, POST, PUT, DELETE, OPTIONS")
          @@ ("Access-Control-Allow-Headers" :> "Content-Type, Authorization, X-Request-ID")
          @@ ("Access-Control-Max-Age" :> "3600")
          @@ @]

\* the CORS middleware on an OPTIONS request when CORS is on:
\* c.SendStatus(204), and the chain ends
Preflight(cfg) ==
  CORS(cfg, EdgeResponse(204, CtText, <<"N", "o", " ", "C", "o", "n", "t", "e", "n", "t">>,
                         "none", FALSE))

\* the SecurityHeaders middleware
SecurityHeaders(cfg, resp) ==
  IF ~ cfg.EnableSecurityHeaders THEN resp
  ELSE [resp EXCEPT !.headers =
          ("X-Frame-Options" :> "SAMEORIGIN")
          @@ ("X-Content-Type-Options" :> "nosniff")
          @@ ("X-XSS-Protection" :> "1; mode=block")
          @@ ("Referrer-Policy" :> "strict-origin-when-cross-origin")
          @@ ("X-Powered-By" :> "gaxy")
          @@ @]

\* a request is modelled by its header lines in the order they were
\* received, the Host line apart; NoHeaderLines is a request without any
NoHeaderLines == <<>>

LinesOf(sent, key) == {i \in 1..Len(sent) : NormalizeHeaderKey(sent[i].name) = key}

\* the value of the line of the header key that came last
LastLine(sent, key) == sent[SetMax(LinesOf(sent, key))].value

\* RequestHeader.Peek, by which c.Get reads a header: of Host, User-Agent,
\* Content-Type, Content-Length and Trailer fasthttp keeps the line received
\* last, "close" is kept of the Connection lines when the last one says so,
\* every Transfer-Encoding but "identity" is kept as "chunked", and of any
\* other header the first line is returned
Peek(sent, host, name) ==
  IF NormalizeHeaderKey(name) = HostKey THEN host
  ELSE IF LinesOf(sent, NormalizeHeaderKey(name)) = {} THEN EmptyStr
  ELSE IF NormalizeHeaderKey(name) \in {UserAgentKey, ContentTypeKey, ContentLengthKey}
  THEN LastLine(sent, NormalizeHeaderKey(name))
  ELSE IF NormalizeHeaderKey(name) = TrailerKey
  THEN TrailerValue(LastLine(sent, TrailerKey))
  ELSE IF NormalizeHeaderKey(name) = TransferEncodingKey
  THEN IF \E i \in LinesOf(sent, TransferEncodingKey) :
            sent[i].value # <<"i", "d", "e", "n", "t", "i", "t", "y">>
       THEN <<"c", "h", "u", "n", "k", "e", "d">> ELSE EmptyStr
  ELSE IF NormalizeHeaderKey(name) = ConnectionKey
  THEN IF LastLine(sent, ConnectionKey) = <<"c", "l", "o", "s", "e">>
       THEN <<"c", "l", "o", "s", "e">>
       ELSE sent[SetMin({i \in LinesOf(sent, ConnectionKey) :
                          sent[i].value # <<"c", "l", "o", "s", "e">>})].value
  ELSE sent[SetMin(LinesOf(sent, NormalizeHeaderKey(name)))].value

\* the header lines fasthttp reads without an error, which are those of the
\* requests that reach the middleware: one Content-Length at most, of
\* digits, and no Trailer that names a header isBadTrailer refuses
HeadersParse(sent) ==
  /\ Cardinality(LinesOf(sent, ContentLengthKey)) <= 1
  /\ \A i \in LinesOf(sent, ContentLengthKey) : ~ parseContentLength(sent[i].value).err
  /\ \A i \in LinesOf(sent, TrailerKey) :
       \A j \in DOMAIN TrailerParts(sent[i].value) : ~ isBadTrailer(TrailerParts(sent[i].value)[j])

\* the RequestID middleware: the id the request brings, or a new UUID
RequestID(sent, host, generated) ==
  IF Peek(sent, host, <<"X", "-", "R", "e", "q", "u", "e", "s", "t", "-", "I", "D">>) = EmptyStr
  THEN generated
  ELSE Peek(sent, host, <<"X", "-", "R", "e", "q", "u", "e", "s", "t", "-", "I", "D">>)

\* c.Set("X-Request-ID", requestID)
SetRequestID(id, resp) == [resp EXCEPT !.headers = ("X-Request-ID" :> id) @@ @]

\* the response of a request that has passed RequestID, CORS and
\* SecurityHeaders
Passed(cfg, id, resp) == SetRequestID(id, SecurityHeaders(cfg, CORS(cfg, resp)))

\* metrics.New; requestsInFlight is the gauge of the Metrics middleware, the
\* durations are kept in ticks of the clock
NewMetrics ==
  [rateLimitDropped |-> 0, requestsTotal |-> [code \in {} |-> 0],
   upstreamRequestsTotal |-> [code \in {} |-> 0], upstreamErrors |-> 0,
   requestsInFlight |-> 0, requestDuration |-> <<>>, upstreamDuration |-> <<>>,
   cacheHits |-> 0, cacheMisses |-> 0, cacheEvictions |-> 0, cacheSizeBytes |-> 0,
   cacheEntries |-> 0, startTime |-> 0]

\* the last 1000 durations are kept
KeepDurations(d) == IF Len(d) > 1000 THEN SubSeq(d, Len(d) - 999, Len(d)) ELSE d

\* IncRequestsInFlight and DecRequestsInFlight, each under m.mu
IncRequestsInFlight(m) == [m EXCEPT !.requestsInFlight = @ + 1]

DecRequestsInFlight(m) == [m EXCEPT !.requestsInFlight = @ - 1]

\* MetricsLeave_noDefer: the decrement is an ordinary statement after
\* c.Next(), which a panic passes by
MetricsLeave_noDefer(m, panicking) ==
  IF panicking THEN m ELSE DecRequestsInFlight(m)

\* the deferred m.DecRequestsInFlight() of the Metrics middleware: it runs
\* when the middleware returns and when a panic unwinds through it
MetricsLeave(m, panicking) == DecRequestsInFlight(m)

RecordRateLimitDrop(m) == [m EXCEPT !.rateLimitDropped = @ + 1]

RecordRequest(m, statusCode, duration) ==
  [m EXCEPT !.requestsTotal =
              MapPut(@, statusCode, IF statusCode \in DOMAIN @ THEN @[statusCode] + 1 ELSE 1),
            !.requestDuration = KeepDurations(Append(@, duration))]

RecordUpstreamRequest(m, statusCode, duration, isError) ==
  [m EXCEPT !.upstreamRequestsTotal =
              MapPut(@, statusCode, IF statusCode \in DOMAIN @ THEN @[statusCode] + 1 ELSE 1),
            !.upstreamDuration = KeepDurations(Append(@, duration)),
            !.upstreamErrors = IF isError THEN @ + 1 ELSE @]

\* Cache.GetStats under the read lock of c.mu
GetStats(c) ==
  [Hits |-> c.stats.Hits, Misses |-> c.stats.Misses, Evictions |-> c.stats.Evictions,
   Size |-> c.currSize, EntryCount |-> Cardinality(DOMAIN c.data)]

\* Metrics.UpdateCacheStats under m.mu
UpdateCacheStats(m, stats) ==
  [m EXCEPT !.cacheHits = stats.Hits, !.cacheMisses = stats.Misses,
            !.cacheEvictions = stats.Evictions, !.cacheSizeBytes = stats.Size,
            !.cacheEntries = stats.EntryCount]

\* upstreamResp.StatusCode() after client.Do: a response that was never
\* filled reads as 200
UpstreamStatus(done, up) == IF done.err # "none" THEN 200 ELSE up.StatusCode

\* s.metrics.RecordUpstreamRequest(statusCode, duration, err != nil)
UpstreamRecorded(m, done, up, duration) ==
  RecordUpstreamRequest(m, UpstreamStatus(done, up), duration, done.err # "none")

Verdict(r) == [limiter |-> r.limiter, verdict |-> IF r.ok THEN "allowed" ELSE "denied"]

\* RateLimit_passAll: the middleware without the call of Allow
RateLimit_passAll(cfg, l, ip, t) == [limiter |-> l, verdict |-> "off"]

\* the RateLimit middleware for a request of ip at time t: Setup leaves it
\* out when main built no limiter
RateLimit(cfg, l, ip, t) ==
  IF ~ l.enabled THEN [limiter |-> l, verdict |-> "absent"]
  ELSE IF ~ cfg.RateLimitEnabled THEN [limiter |-> l, verdict |-> "off"]
  ELSE Verdict(Allow(l, ip, t))

\* the answer to a request that the limiter has denied
TooManyRequests == EdgeResponse(429, CtJSON, JSONError(RateLimitMessage), "none", FALSE)

\* URI.PathOriginal of fasthttp: the request URI up to its query or its
\* fragment, a "?" after the "#" being part of the fragment
RoutePath(uri) ==
  IF Index(uri, <<"?">>) >= 0
     /\ ~ (Index(uri, <<"#">>) >= 0 /\ Index(uri, <<"?">>) > Index(uri, <<"#">>))
  THEN Take(uri, Index(uri, <<"?">>))
  ELSE IF Index(uri, <<"#">>) >= 0 THEN Take(uri, Index(uri, <<"#">>))
  ELSE uri

\* splitHostURI, n the offset of the first "//" of the request URI: the
\* host of an absolute URI is what follows up to the first "/", "?" or "#"
FirstDelimiter(rest) == FirstOf({i \in 0..(Len(rest) - 1) : rest[i + 1] \in {"/", "?", "#"}})

SplitTarget(rest, n) ==
  IF n < 0 THEN [host |-> rest, uri |-> <<"/">>]
  ELSE [host |-> Take(rest, n), uri |-> Drop(rest, n)]

splitHostURIAt(host, uri, n) ==
  IF n < 0 \/ Contains(Take(uri, n), <<"/">>) THEN [host |-> host, uri |-> uri]
  ELSE SplitTarget(Drop(uri, n + 2), FirstDelimiter(Drop(uri, n + 2)))

splitHostURI(host, uri) == splitHostURIAt(host, uri, Index(uri, <<"/", "/">>))

\* URI.parse(host, uri): the host and the URI it goes by; the host of the
\* Host header, unless there is none or the request URI is an absolute one
ParsedTarget(host, uri) ==
  IF host = EmptyStr \/ Contains(uri, <<":", "/", "/">>) THEN splitHostURI(host, uri)
  ELSE [host |-> host, uri |-> uri]

\* URI.Host: in lower case, without the user information; a request URI
\* with a control byte is not parsed and leaves the URI empty
URIHost(host, uri) ==
  IF stringContainsCTLByte(uri) THEN EmptyStr
  ELSE IF Index(ParsedTarget(host, uri).host, <<"@">>) >= 0
  THEN ToLower(Drop(ParsedTarget(host, uri).host,
                    Index(ParsedTarget(host, uri).host, <<"@">>) + 1))
  ELSE ToLower(ParsedTarget(host, uri).host)

\* URI.PathOriginal of the request, by which fiber routes
PathOriginal(host, uri) ==
  IF stringContainsCTLByte(uri) THEN EmptyStr ELSE RoutePath(ParsedTarget(host, uri).uri)

\* URI.QueryString: what stands between the "?" and the fragment
QueryOf(uri) ==
  IF Index(uri, <<"?">>) >= 0
     /\ ~ (Index(uri, <<"#">>) >= 0 /\ Index(uri, <<"?">>) > Index(uri, <<"#">>))
  THEN Cut(Drop(uri, Index(uri, <<"?">>) + 1), <<"#">>).before
  ELSE EmptyStr

QueryString(host, uri) ==
  IF stringContainsCTLByte(uri) THEN EmptyStr ELSE QueryOf(ParsedTarget(host, uri).uri)

\* the bytes appendQuotedPath leaves as they are
PathUnreserved(c) == ArgUnreserved(c) \/ c \in {"$", "&", "+", ",", "/", ":", ";", "=", "@"}

\* appendQuotedPath
RECURSIVE appendQuotedPathFrom(_, _)
appendQuotedPathFrom(s, i) ==
  IF i > Len(s) THEN EmptyStr
  ELSE IF PathUnreserved(s[i]) THEN <<s[i]>> \o appendQuotedPathFrom(s, i + 1)
  ELSE QuoteByte(ByteOf(s[i])) \o appendQuotedPathFrom(s, i + 1)

appendQuotedPath(src) == IF src = <<"*">> THEN src ELSE appendQuotedPathFrom(src, 1)

\* Request.RequestURI() once fiber has parsed the URI: the normalized path,
\* quoted, and the query string as it came; the fragment is dropped
RequestURI(host, uri) ==
  appendQuotedPath(normalizePath(PathOriginal(host, uri)))
    \o (IF QueryString(host, uri) # EmptyStr THEN <<"?">> \o QueryString(host, uri)
        ELSE EmptyStr)

\* utils.TrimRight(s, '/')
RECURSIVE TrimRightSlash(_)
TrimRightSlash(s) ==
  IF s # EmptyStr /\ s[Len(s)] = "/" THEN TrimRightSlash(Take(s, Len(s) - 1)) ELSE s

\* the path fiber matches routes by, CaseSensitive and StrictRouting being
\* off: lower case, without trailing slashes
DetectionPath(path) ==
  IF Len(path) > 1 /\ path[Len(path)] = "/" THEN TrimRightSlash(ToLower(path))
  ELSE ToLower(path)

\* the path a route is registered under
RegisteredPath(path) ==
  IF path = EmptyStr THEN <<"/">>
  ELSE IF path[1] # "/" THEN DetectionPath(<<"/">> \o path)
  ELSE DetectionPath(path)

\* the routes of Setup for a GET request, in the order of their registration
Route(cfg, path) ==
  IF DetectionPath(path) = RegisteredPath(<<"/", "p", "i", "n", "g">>) THEN "ping"
  ELSE IF DetectionPath(path) = RegisteredPath(<<"/", "h", "e", "a", "l", "t", "h">>) THEN "health"
  ELSE IF cfg.MetricsEnabled /\ DetectionPath(path) = RegisteredPath(cfg.MetricsPath)
  THEN "metrics"
  ELSE "proxy"

\* strconv.Itoa and the verb %d of fmt
RECURSIVE ItoaNat(_)
ItoaNat(n) == IF n < 10 THEN <<Chr(48 + n)>> ELSE ItoaNat(n \div 10) \o <<Chr(48 + (n % 10))>>

Itoa(n) == IF n < 0 THEN <<"-">> \o ItoaNat(0 - n) ELSE ItoaNat(n)

\* the last width digits of n, with leading zeros
RECURSIVE Digits0(_, _)
Digits0(n, width) ==
  IF width = 0 THEN EmptyStr ELSE Digits0(n \div 10, width - 1) \o <<Chr(48 + (n % 10))>>

\* s without its trailing zeros
RECURSIVE TrimZeros(_)
TrimZeros(s) ==
  IF s # EmptyStr /\ s[Len(s)] = "0" THEN TrimZeros(Take(s, Len(s) - 1)) ELSE s

\* a span of the clock in whole seconds and the nanoseconds beyond them
WholeSeconds(ticks) == ticks \div TicksPerSecond

Nanoseconds(ticks) ==
  (((ticks % TicksPerSecond) * 1000000) \div TicksPerSecond) * 1000
    + ((((ticks % TicksPerSecond) * 1000000) % TicksPerSecond) * 1000) \div TicksPerSecond

\* Duration.Seconds() under the verb %f of fmt: six decimals, the nearest
FormatF(ticks) ==
  ItoaNat(WholeSeconds(ticks)) \o <<".">>
    \o Digits0(((ticks % TicksPerSecond) * 2000000 + TicksPerSecond) \div (2 * TicksPerSecond), 6)

\* fmtFrac of time.Duration.String: the fraction of width digits without
\* its trailing zeros, and without the point when it is zero
FmtFrac(n, width) ==
  IF TrimZeros(Digits0(n, width)) = EmptyStr THEN EmptyStr
  ELSE <<".">> \o TrimZeros(Digits0(n, width))

\* time.Duration.String for a span that is not negative
DurationString(secs, ns) ==
  IF secs = 0 /\ ns = 0 THEN <<"0", "s">>
  ELSE IF secs = 0 /\ ns < 1000 THEN ItoaNat(ns) \o <<"n", "s">>
  ELSE IF secs = 0 /\ ns < 1000000
  THEN ItoaNat(ns \div 1000) \o FmtFrac(ns % 1000, 3) \o <<"xc2", "xb5", "s">>
  ELSE IF secs = 0
  THEN ItoaNat(ns \div 1000000) \o FmtFrac(ns % 1000000, 6) \o <<"m", "s">>
  ELSE (IF secs >= 3600 THEN ItoaNat(secs \div 3600) \o <<"h">> ELSE EmptyStr)
       \o (IF secs >= 60 THEN ItoaNat((secs \div 60) % 60) \o <<"m">> ELSE EmptyStr)
       \o ItoaNat(secs % 60) \o FmtFrac(ns, 9) \o <<"s">>


\* the average and the percentile of Export over the kept durations, in
\* ticks of the clock
RECURSIVE SumSeq(_)
SumSeq(s) == IF s = <<>> THEN 0 ELSE s[1] + SumSeq(Tail(s))

RECURSIVE SortedInsert(_, _)
SortedInsert(s, v) ==
  IF s = <<>> THEN <<v>>
  ELSE IF v <= s[1] THEN <<v>> \o s
  ELSE <<s[1]>> \o SortedInsert(Tail(s), v)

RECURSIVE SortAscending(_)
SortAscending(s) == IF s = <<>> THEN <<>> ELSE SortedInsert(SortAscending(Tail(s)), s[1])

\* percentile(values, p) with p in hundredths
percentile(values, hundredths) ==
  IF values = <<>> THEN 0
  ELSE SortAscending(values)[
         (IF (Len(values) * hundredths) \div 100 >= Len(values)
          THEN Len(values) - 1 ELSE (Len(values) * hundredths) \div 100) + 1]

\* one line of a counter for every status code of the map, in the order the
\* range statement visits them
RECURSIVE StatusLines(_, _, _)
StatusLines(name, counts, order) ==
  IF order = <<>> THEN EmptyStr
  ELSE name \o <<"{", "s", "t", "a", "t", "u", "s", "=", "\"">> \o Itoa(order[1])
         \o <<"\"", "}", " ">> \o Itoa(counts[order[1]]) \o <<"x0a">>
         \o StatusLines(name, counts, Tail(order))

\* the summary of the kept durations, left out when there are none
RequestSummary(durations) ==
  IF durations = <<>> THEN EmptyStr
  ELSE <<"#", " ", "H", "E", "L", "P", " ", "g", "a", "x", "y", "_", "r", "e", "q", "u", "e", "s", "t", "_", "d", "u", "r", "a", "t", "i", "o", "n", "_", "s", "e", "c", "o", "n", "d", "s", " ", "H", "T", "T", "P", " ", "r", "e", "q", "u", "e", "s", "t", " ", "d", "u", "r", "a", "t", "i", "o", "n", "x0a", "#", " ", "T", "Y", "P", "E", " ", "g", "a", "x", "y", "_", "r", "e", "q", "u", "e", "s", "t", "_", "d", "u", "r", "a", "t", "i", "o", "n", "_", "s", "e", "c", "o", "n", "d", "s", " ", "s", "u", "m", "m", "a", "r", "y", "x0a", "g", "a", "x", "y", "_", "r", "e", "q", "u", "e", "s", "t", "_", "d", "u", "r", "a", "t", "i", "o", "n", "_", "s", "e", "c", "o", "n", "d", "s", "{", "q", "u", "a", "n", "t", "i", "l", "e", "=", "\"", "0", ".", "5", "\"", "}", " ">>
         \o FormatF(percentile(durations, 50))
         \o <<"x0a", "g", "a", "x", "y", "_", "r", "e", "q", "u", "e", "s", "t", "_", "d", "u", "r", "a", "t", "i", "o", "n", "_", "s", "e", "c", "o", "n", "d", "s", "{", "q", "u", "a", "n", "t", "i", "l", "e", "=", "\"", "0", ".", "9", "5", "\"", "}", " ">>
         \o FormatF(percentile(durations, 95))
         \o <<"x0a", "g", "a", "x", "y", "_", "r", "e", "q", "u", "e", "s", "t", "_", "d", "u", "r", "a", "t", "i", "o", "n", "_", "s", "e", "c", "o", "n", "d", "s", "{", "q", "u", "a", "n", "t", "i", "l", "e", "=", "\"", "0", ".", "9", "9", "\"", "}", " ">>
         \o FormatF(percentile(durations, 99))
         \o <<"x0a", "g", "a", "x", "y", "_", "r", "e", "q", "u", "e", "s", "t", "_", "d", "u", "r", "a", "t", "i", "o", "n", "_", "s", "e", "c", "o", "n", "d", "s", "_", "s", "u", "m", " ">>
         \o FormatF(SumSeq(durations))
         \o <<"x0a", "g", "a", "x", "y", "_", "r", "e", "q", "u", "e", "s", "t", "_", "d", "u", "r", "a", "t", "i", "o", "n", "_", "s", "e", "c", "o", "n", "d", "s", "_", "c", "o", "u", "n", "t", " ">>
         \o Itoa(Len(durations)) \o <<"x0a", "x0a">>

\* the summary of the kept durations, left out when there are none
UpstreamSummary(durations) ==
  IF durations = <<>> THEN EmptyStr
  ELSE <<"#", " ", "H", "E", "L", "P", " ", "g", "a", "x", "y", "_", "u", "p", "s", "t", "r", "e", "a", "m", "_", "d", "u", "r", "a", "t", "i", "o", "n", "_", "s", "e", "c", "o", "n", "d", "s", " ", "U", "p", "s", "t", "r", "e", "a", "m", " ", "r", "e", "q", "u", "e", "s", "t", " ", "d", "u", "r", "a", "t", "i", "o", "n", "x0a", "#", " ", "T", "Y", "P", "E", " ", "g", "a", "x", "y", "_", "u", "p", "s", "t", "r", "e", "a", "m", "_", "d", "u", "r", "a", "t", "i", "o", "n", "_", "s", "e", "c", "o", "n", "d", "s", " ", "s", "u", "m", "m", "a", "r", "y", "x0a", "g", "a", "x", "y", "_", "u", "p", "s", "t", "r", "e", "a", "m", "_", "d", "u", "r", "a", "t", "i", "o", "n", "_", "s", "e", "c", "o", "n", "d", "s", "{", "q", "u", "a", "n", "t", "i", "l", "e", "=", "\"", "0", ".", "5", "\"", "}", " ">>
         \o FormatF(percentile(durations, 50))
         \o <<"x0a", "g", "a", "x", "y", "_", "u", "p", "s", "t", "r", "e", "a", "m", "_", "d", "u", "r", "a", "t", "i", "o", "n", "_", "s", "e", "c", "o", "n", "d", "s", "{", "q", "u", "a", "n", "t", "i", "l", "e", "=", "\"", "0", ".", "9", "5", "\"", "}", " ">>
         \o FormatF(percentile(durations, 95))
         \o <<"x0a", "g", "a", "x", "y", "_", "u", "p", "s", "t", "r", "e", "a", "m", "_", "d", "u", "r", "a", "t", "i", "o", "n", "_", "s", "e", "c", "o", "n", "d", "s", "{", "q", "u", "a", "n", "t", "i", "l", "e", "=", "\"", "0", ".", "9", "9", "\"", "}", " ">>
         \o FormatF(percentile(durations, 99))
         \o <<"x0a", "g", "a", "x", "y", "_", "u", "p", "s", "t", "r", "e", "a", "m", "_", "d", "u", "r", "a", "t", "i", "o", "n", "_", "s", "e", "c", "o", "n", "d", "s", "_", "s", "u", "m", " ">>
         \o FormatF(SumSeq(durations))
         \o <<"x0a", "g", "a", "x", "y", "_", "u", "p", "s", "t", "r", "e", "a", "m", "_", "d", "u", "r", "a", "t", "i", "o", "n", "_", "s", "e", "c", "o", "n", "d", "s", "_", "c", "o", "u", "n", "t", " ">>
         \o Itoa(Len(durations)) \o <<"x0a", "x0a">>

\* Metrics.Export under the read lock of m.mu at time t: the text format of
\* Prometheus; requestOrder and upstreamOrder are the orders in which the two
\* range statements visit the status codes
Export(m, t, requestOrder, upstreamOrder) ==
  <<"#", " ", "H", "E", "L", "P", " ", "g", "a", "x", "y", "_", "i", "n", "f", "o", " ", "P", "r", "o", "c", "e", "s", "s", " ", "i", "n", "f", "o", "r", "m", "a", "t", "i", "o", "n", "x0a", "#", " ", "T", "Y", "P", "E", " ", "g", "a", "x", "y", "_", "i", "n", "f", "o", " ", "g", "a", "u", "g", "e", "x0a", "g", "a", "x", "y", "_", "i", "n", "f", "o", "{", "v", "e", "r", "s", "i", "o", "n", "=", "\"", "1", ".", "0", ".", "0", "\"", "}", " ", "1", "x0a", "x0a">>
    \o <<"#", " ", "H", "E", "L", "P", " ", "g", "a", "x", "y", "_", "u", "p", "t", "i", "m", "e", "_", "s", "e", "c", "o", "n", "d", "s", " ", "P", "r", "o", "c", "e", "s", "s", " ", "u", "p", "t", "i", "m", "e", " ", "i", "n", " ", "s", "e", "c", "o", "n", "d", "s", "x0a", "#", " ", "T", "Y", "P", "E", " ", "g", "a", "x", "y", "_", "u", "p", "t", "i", "m", "e", "_", "s", "e", "c", "o", "n", "d", "s", " ", "c", "o", "u", "n", "t", "e", "r", "x0a", "g", "a", "x", "y", "_", "u", "p", "t", "i", "m", "e", "_", "s", "e", "c", "o", "n", "d", "s", " ">>
    \o FormatF(t - m.startTime) \o <<"x0a", "x0a">>
    \o <<"#", " ", "H", "E", "L", "P", " ", "g", "a", "x", "y", "_", "r", "e", "q", "u", "e", "s", "t", "s", "_", "t", "o", "t", "a", "l", " ", "T", "o", "t", "a", "l", " ", "n", "u", "m", "b", "e", "r", " ", "o", "f", " ", "H", "T", "T", "P", " ", "r", "e", "q", "u", "e", "s", "t", "s", "x0a", "#", " ", "T", "Y", "P", "E", " ", "g", "a", "x", "y", "_", "r", "e", "q", "u", "e", "s", "t", "s", "_", "t", "o", "t", "a", "l", " ", "c", "o", "u", "n", "t", "e", "r", "x0a">>
    \o StatusLines(<<"g", "a", "x", "y", "_", "r", "e", "q", "u", "e", "s", "t", "s", "_", "t", "o", "t", "a", "l">>, m.requestsTotal, requestOrder) \o <<"x0a">>
    \o <<"#", " ", "H", "E", "L", "P", " ", "g", "a", "x", "y", "_", "r", "e", "q", "u", "e", "s", "t", "s", "_", "i", "n", "_", "f", "l", "i", "g", "h", "t", " ", "N", "u", "m", "b", "e", "r", " ", "o", "f", " ", "r", "e", "q", "u", "e", "s", "t", "s", " ", "c", "u", "r", "r", "e", "n", "t", "l", "y", " ", "b", "e", "i", "n", "g", " ", "p", "r", "o", "c", "e", "s", "s", "e", "d", "x0a", "#", " ", "T", "Y", "P", "E", " ", "g", "a", "x", "y", "_", "r", "e", "q", "u", "e", "s", "t", "s", "_", "i", "n", "_", "f", "l", "i", "g", "h", "t", " ", "g", "a", "u", "g", "e", "x0a", "g", "a", "x", "y", "_", "r", "e", "q", "u", "e", "s", "t", "s", "_", "i", "n", "_", "f", "l", "i", "g", "h", "t", " ">>
    \o Itoa(m.requestsInFlight) \o <<"x0a", "x0a">>
    \o RequestSummary(m.requestDuration)
    \o <<"#", " ", "H", "E", "L", "P", " ", "g", "a", "x", "y", "_", "c", "a", "c", "h", "e", "_", "h", "i", "t", "s", "_", "t", "o", "t", "a", "l", " ", "T", "o", "t", "a", "l", " ", "n", "u", "m", "b", "e", "r", " ", "o", "f", " ", "c", "a", "c", "h", "e", " ", "h", "i", "t", "s", "x0a", "#", " ", "T", "Y", "P", "E", " ", "g", "a", "x", "y", "_", "c", "a", "c", "h", "e", "_", "h", "i", "t", "s", "_", "t", "o", "t", "a", "l", " ", "c", "o", "u", "n", "t", "e", "r", "x0a", "g", "a", "x", "y", "_", "c", "a", "c", "h", "e", "_", "h", "i", "t", "s", "_", "t", "o", "t", "a", "l", " ">>
    \o Itoa(m.cacheHits) \o <<"x0a", "x0a">>
    \o <<"#", " ", "H", "E", "L", "P", " ", "g", "a", "x", "y", "_", "c", "a", "c", "h", "e", "_", "m", "i", "s", "s", "e", "s", "_", "t", "o", "t", "a", "l", " ", "T", "o", "t", "a", "l", " ", "n", "u", "m", "b", "e", "r", " ", "o", "f", " ", "c", "a", "c", "h", "e", " ", "m", "i", "s", "s", "e", "s", "x0a", "#", " ", "T", "Y", "P", "E", " ", "g", "a", "x", "y", "_", "c", "a", "c", "h", "e", "_", "m", "i", "s", "s", "e", "s", "_", "t", "o", "t", "a", "l", " ", "c", "o", "u", "n", "t", "e", "r", "x0a", "g", "a", "x", "y", "_", "c", "a", "c", "h", "e", "_", "m", "i", "s", "s", "e", "s", "_", "t", "o", "t", "a", "l", " ">>
    \o Itoa(m.cacheMisses) \o <<"x0a", "x0a">>
    \o <<"#", " ", "H", "E", "L", "P", " ", "g", "a", "x", "y", "_", "c", "a", "c", "h", "e", "_", "e", "v", "i", "c", "t", "i", "o", "n", "s", "_", "t", "o", "t", "a", "l", " ", "T", "o", "t", "a", "l", " ", "n", "u", "m", "b", "e", "r", " ", "o", "f", " ", "c", "a", "c", "h", "e", " ", "e", "v", "i", "c", "t", "i", "o", "n", "s", "x0a", "#", " ", "T", "Y", "P", "E", " ", "g", "a", "x", "y", "_", "c", "a", "c", "h", "e", "_", "e", "v", "i", "c", "t", "i", "o", "n", "s", "_", "t", "o", "t", "a", "l", " ", "c", "o", "u", "n", "t", "e", "r", "x0a", "g", "a", "x", "y", "_", "c", "a", "c", "h", "e", "_", "e", "v", "i", "c", "t", "i", "o", "n", "s", "_", "t", "o", "t", "a", "l", " ">>
    \o Itoa(m.cacheEvictions) \o <<"x0a", "x0a">>
    \o <<"#", " ", "H", "E", "L", "P", " ", "g", "a", "x", "y", "_", "c", "a", "c", "h", "e", "_", "s", "i", "z", "e", "_", "b", "y", "t", "e", "s", " ", "C", "u", "r", "r", "e", "n", "t", " ", "c", "a", "c", "h", "e", " ", "s", "i", "z", "e", " ", "i", "n", " ", "b", "y", "t", "e", "s", "x0a", "#", " ", "T", "Y", "P", "E", " ", "g", "a", "x", "y", "_", "c", "a", "c", "h", "e", "_", "s", "i", "z", "e", "_", "b", "y", "t", "e", "s", " ", "g", "a", "u", "g", "e", "x0a", "g", "a", "x", "y", "_", "c", "a", "c", "h", "e", "_", "s", "i", "z", "e", "_", "b", "y", "t", "e", "s", " ">>
    \o Itoa(m.cacheSizeBytes) \o <<"x0a", "x0a">>
    \o <<"#", " ", "H", "E", "L", "P", " ", "g", "a", "x", "y", "_", "c", "a", "c", "h", "e", "_", "e", "n", "t", "r", "i", "e", "s", " ", "C", "u", "r", "r", "e", "n", "t", " ", "n", "u", "m", "b", "e", "r", " ", "o", "f", " ", "c", "a", "c", "h", "e", " ", "e", "n", "t", "r", "i", "e", "s", "x0a", "#", " ", "T", "Y", "P", "E", " ", "g", "a", "x", "y", "_", "c", "a", "c", "h", "e", "_", "e", "n", "t", "r", "i", "e", "s", " ", "g", "a", "u", "g", "e", "x0a", "g", "a", "x", "y", "_", "c", "a", "c", "h", "e", "_", "e", "n", "t", "r", "i", "e", "s", " ">>
    \o Itoa(m.cacheEntries) \o <<"x0a", "x0a">>
    \o <<"#", " ", "H", "E", "L", "P", " ", "g", "a", "x", "y", "_", "u", "p", "s", "t", "r", "e", "a", "m", "_", "r", "e", "q", "u", "e", "s", "t", "s", "_", "t", "o", "t", "a", "l", " ", "T", "o", "t", "a", "l", " ", "n", "u", "m", "b", "e", "r", " ", "o", "f", " ", "u", "p", "s", "t", "r", "e", "a", "m", " ", "r", "e", "q", "u", "e", "s", "t", "s", "x0a", "#", " ", "T", "Y", "P", "E", " ", "g", "a", "x", "y", "_", "u", "p", "s", "t", "r", "e", "a", "m", "_", "r", "e", "q", "u", "e", "s", "t", "s", "_", "t", "o", "t", "a", "l", " ", "c", "o", "u", "n", "t", "e", "r", "x0a">>
    \o StatusLines(<<"g", "a", "x", "y", "_", "u", "p", "s", "t", "r", "e", "a", "m", "_", "r", "e", "q", "u", "e", "s", "t", "s", "_", "t", "o", "t", "a", "l">>, m.upstreamRequestsTotal, upstreamOrder) \o <<"x0a">>
    \o <<"#", " ", "H", "E", "L", "P", " ", "g", "a", "x", "y", "_", "u", "p", "s", "t", "r", "e", "a", "m", "_", "e", "r", "r", "o", "r", "s", "_", "t", "o", "t", "a", "l", " ", "T", "o", "t", "a", "l", " ", "n", "u", "m", "b", "e", "r", " ", "o", "f", " ", "u", "p", "s", "t", "r", "e", "a", "m", " ", "e", "r", "r", "o", "r", "s", "x0a", "#", " ", "T", "Y", "P", "E", " ", "g", "a", "x", "y", "_", "u", "p", "s", "t", "r", "e", "a", "m", "_", "e", "r", "r", "o", "r", "s", "_", "t", "o", "t", "a", "l", " ", "c", "o", "u", "n", "t", "e", "r", "x0a", "g", "a", "x", "y", "_", "u", "p", "s", "t", "r", "e", "a", "m", "_", "e", "r", "r", "o", "r", "s", "_", "t", "o", "t", "a", "l", " ">>
    \o Itoa(m.upstreamErrors) \o <<"x0a", "x0a">>
    \o UpstreamSummary(m.upstreamDuration)
    \o <<"#", " ", "H", "E", "L", "P", " ", "g", "a", "x", "y", "_", "r", "a", "t", "e", "_", "l", "i", "m", "i", "t", "_", "d", "r", "o", "p", "p", "e", "d", "_", "t", "o", "t", "a", "l", " ", "T", "o", "t", "a", "l", " ", "n", "u", "m", "b", "e", "r", " ", "o", "f", " ", "r", "a", "t", "e", "-", "l", "i", "m", "i", "t", "e", "d", " ", "r", "e", "q", "u", "e", "s", "t", "s", "x0a", "#", " ", "T", "Y", "P", "E", " ", "g", "a", "x", "y", "_", "r", "a", "t", "e", "_", "l", "i", "m", "i", "t", "_", "d", "r", "o", "p", "p", "e", "d", "_", "t", "o", "t", "a", "l", " ", "c", "o", "u", "n", "t", "e", "r", "x0a", "g", "a", "x", "y", "_", "r", "a", "t", "e", "_", "l", "i", "m", "i", "t", "_", "d", "r", "o", "p", "p", "e", "d", "_", "t", "o", "t", "a", "l", " ">>
    \o Itoa(m.rateLimitDropped) \o <<"x0a", "x0a">>

\* json.Marshal of the fiber.Map of Handler.Health, its keys in order; the
\* figures are those the runtime reports
HealthBody(uptime, fig) ==
  <<"{", "\"", "s", "t", "a", "t", "u", "s", "\"", ":", "\"", "h", "e", "a", "l", "t", "h", "y", "\"", ",", "\"", "s", "y", "s", "t", "e", "m", "\"", ":", "{", "\"", "g", "c", "_", "r", "u", "n", "s", "\"", ":">>
    \o Itoa(fig.gc_runs) \o <<",", "\"", "g", "o", "r", "o", "u", "t", "i", "n", "e", "s", "\"", ":">>
    \o Itoa(fig.goroutines) \o <<",", "\"", "m", "e", "m", "o", "r", "y", "_", "a", "l", "l", "o", "c", "\"", ":", "\"">>
    \o Itoa(fig.alloc \div (1024 * 1024)) \o <<" ", "M", "B", "\"", ",", "\"", "m", "e", "m", "o", "r", "y", "_", "s", "y", "s", "\"", ":", "\"">>
    \o Itoa(fig.sys \div (1024 * 1024)) \o <<" ", "M", "B", "\"", ",", "\"", "m", "e", "m", "o", "r", "y", "_", "t", "o", "t", "a", "l", "\"", ":", "\"">>
    \o Itoa(fig.total \div (1024 * 1024)) \o <<" ", "M", "B", "\"", "}", ",", "\"", "u", "p", "t", "i", "m", "e", "\"", ":", "\"">>
    \o DurationString(WholeSeconds(uptime), Nanoseconds(uptime)) \o <<"\"", ",", "\"", "v", "e", "r", "s", "i", "o", "n", "\"", ":", "\"", "1", ".", "0", ".", "0", "\"", "}">>

\* runtime.NumGoroutine and runtime.ReadMemStats, in bytes and runs
HealthFigures ==
  {[goroutines |-> 9, alloc |-> 1048575, total |-> 3 * 1024 * 1024, sys |-> 12 * 1024 * 1024,
    gc_runs |-> 0],
   [goroutines |-> 12, alloc |-> 2 * 1024 * 1024, total |-> 40 * 1024 * 1024,
    sys |-> 16 * 1024 * 1024, gc_runs |-> 3]}

\* Handler.Ping
Ping == EdgeResponse(200, CtText, <<"p", "o", "n", "g">>, "ping", FALSE)

\* Handler.Health at time t, the handler having been built at time 0
Health(t, fig) == EdgeResponse(200, CtJSON, HealthBody(t, fig), "health", FALSE)

\* Handler.Metrics
Metrics(m, t, requestOrder, upstreamOrder) ==
  EdgeResponse(200, CtPrometheus, Export(m, t, requestOrder, upstreamOrder), "metrics", FALSE)

\* Handler.Proxy: the request URI without the route prefix
TrimRoutePrefix(cfg, uri) ==
  IF cfg.RoutePrefix # EmptyStr /\ HasPrefix(uri, cfg.RoutePrefix \o <<"/">>)
  THEN Drop(uri, Len(cfg.RoutePrefix))
  ELSE uri

\* collectCookies: the cookies of the Cookie lines sent[i..], in their order
RECURSIVE collectCookies(_, _, _)
collectCookies(sent, i, cookies) ==
  IF i > Len(sent) THEN cookies
  ELSE IF NormalizeHeaderKey(sent[i].name) = CookieKey
  THEN collectCookies(sent, i + 1, parseRequestCookies(cookies, sent[i].value))
  ELSE collectCookies(sent, i + 1, cookies)

\* what VisitAll passes under the name k: the cookies of all Cookie lines
\* written anew, the names of the Trailer, "chunked" for a Transfer-Encoding,
\* and of any other name that came in several lines the value visited last
Visited(sent, host, k) ==
  IF k = HostKey THEN host
  ELSE IF k \in {UserAgentKey, ContentTypeKey, TrailerKey, TransferEncodingKey}
  THEN Peek(sent, host, k)
  ELSE IF k = CookieKey THEN appendRequestCookieBytes(collectCookies(sent, 1, <<>>))
  ELSE LastLine(sent, k)

\* the names VisitAll yields: Host when the request has one, User-Agent,
\* Content-Type, Trailer, Cookie and Transfer-Encoding when there is
\* something to pass, never Content-Length, and every other header
VisitedKeys(sent, host) ==
  (IF host # EmptyStr THEN {HostKey} ELSE {})
    \cup {k \in {NormalizeHeaderKey(sent[i].name) : i \in 1..Len(sent)} :
            /\ k \notin {HostKey, ContentLengthKey}
            /\ k \in {UserAgentKey, ContentTypeKey, TrailerKey, TransferEncodingKey, CookieKey}
                 => Visited(sent, host, k) # EmptyStr}

\* Header.VisitAll into the map of Handler.Proxy
VisitAll(sent, host) == [k \in VisitedKeys(sent, host) |-> Visited(sent, host, k)]

\* Handler.Proxy: the headers handed to the engine
ProxyHeaders(sent, host, ip) ==
  IF Peek(sent, host, UserAgentKey) # EmptyStr
  THEN MapPut(MapPut(VisitAll(sent, host), <<"u", "i", "p">>, ip), <<"u", "a">>,
              Peek(sent, host, UserAgentKey))
  ELSE MapPut(VisitAll(sent, host), <<"u", "i", "p">>, ip)

\* Handler.getHostName
getHostName(sent, host, uri) ==
  IF Peek(sent, host, <<"X", "-", "F", "o", "r", "w", "a", "r", "d", "e", "d", "-", "H", "o", "s", "t">>) # EmptyStr
  THEN Peek(sent, host, <<"X", "-", "F", "o", "r", "w", "a", "r", "d", "e", "d", "-", "H", "o", "s", "t">>)
  ELSE URIHost(host, uri)

\* ProxyResponse_always200: the status of the engine's response is not set
ProxyResponse_always200(outcome, resp) ==
  IF outcome \in {"ok", "hit"}
  THEN EdgeResponse(200, resp.ContentType, resp.Body, "proxy", TRUE)
  ELSE IF outcome = "panic"
  THEN EdgeResponse(500, CtJSON, JSONError(InternalErrorMessage), "proxy", FALSE)
  ELSE EdgeResponse(502, CtJSON, JSONError(ProxyFailedMessage), "proxy", FALSE)

\* Handler.Proxy from the return of ProxyRequest on; a panic of the engine
\* is answered by the Recovery middleware
ProxyResponse(outcome, resp) ==
  IF outcome \in {"ok", "hit"}
  THEN EdgeResponse(resp.StatusCode, resp.ContentType, resp.Body, "proxy", TRUE)
  ELSE IF outcome = "panic"
  THEN EdgeResponse(500, CtJSON, JSONError(InternalErrorMessage), "proxy", FALSE)
  ELSE EdgeResponse(502, CtJSON, JSONError(ProxyFailedMessage), "proxy", FALSE)

\* the requests to the edge: the address of the client, the request URI,
\* the request headers and the host of the request
EdgeURIs ==
  {<<"/", "p", "i", "n", "g">>,
   <<"/", "H", "e", "a", "l", "t", "h", "/">>,
   <<"/", "m", "e", "t", "r", "i", "c", "s", "#", "x">>,
   <<"/", "g", "a", ".", "j", "s">>,
   <<"/", "p", "/", "g", "a", ".", "j", "s">>,
   <<"/", "/", "g", "%", "6", "1", ".", "j", "s", "#", "x">>,
   <<"/", "%", "2", "5">>}

\* a request that brings an id, names the public host and sends its cookies
\* in two lines and a Content-Length
EdgeCallers ==
  {[sent |-> <<[name |-> <<"x", "-", "r", "e", "q", "u", "e", "s", "t", "-", "i", "d">>,
                value |-> <<"r", "1">>],
               [name |-> <<"X", "-", "F", "o", "r", "w", "a", "r", "d", "e", "d", "-", "H", "o", "s", "t">>,
                value |-> <<"e", ".", "c">>],
               [name |-> <<"C", "o", "o", "k", "i", "e">>, value |-> <<"a", "=", "1">>],
               [name |-> <<"c", "o", "o", "k", "i", "e">>, value |-> <<"b", "=", "2">>],
               [name |-> <<"C", "o", "n", "t", "e", "n", "t", "-", "L", "e", "n", "g", "t", "h">>,
                value |-> <<"0">>]>>,
    host |-> <<"H">>]}

\* uuid.New().String()
GeneratedIDs == {<<"6", "f", "1", "c", "2", "a", "9", "e", "-", "0", "b", "3", "d", "-", "4", "c", "5", "e", "-", "8", "f", "7", "a", "-", "9", "d", "2", "b", "4", "c", "6", "e", "8", "a", "1", "0">>}

\* the requests to the edge are counted as the calls of the engine are: one
\* that fills the cache and spends the token, and one that comes after it
MaxEdgeRequests == MaxRequests

NoEdgeRequest == [seq |-> 0, pc |-> "idle"]

\* what is kept of the request before the last one
Answered(e) ==
  IF e.seq = 0 THEN e
  ELSE [seq |-> e.seq, pc |-> e.pc, ip |-> e.ip, at |-> e.at, verdict |-> e.verdict,
        resp |-> e.resp]

\* a request of ip for uri with the header lines sent and the Host host,
\* which arrives at time t and goes by the request id; at is the time at
\* which the limiter judges it
EdgeRequest(e, m, engineSeq, ip, uri, sent, host, id, t, verdict, pc) ==
  [seq |-> e.seq + 1, pc |-> pc, ip |-> ip, uri |-> uri, sent |-> sent, host |-> host,
   id |-> id, start |-> t, at |-> t, verdict |-> verdict,
   resp |-> NoResponse, droppedBefore |-> m.rateLimitDropped, engineSeqBefore |-> engineSeq,
   prev |-> Answered(e)]

Idle == [op |-> "idle"]

NoWrite == [op |-> "none"]

WriteLocked == \E w \in Workers : wpc[w].op = "Set"

ReadLocked == \E w \in Workers : wpc[w].op = "Get"

LockFree == ~ WriteLocked /\ ~ ReadLocked

\* callers are interchangeable: a new call runs on the first idle worker
FreeWorker(w) == wpc[w] = Idle /\ \A v \in Workers : wpc[v] = Idle => w <= v

\* Set takes the write lock
SetBegin(w, key, p) ==
  /\ FreeWorker(w)
  /\ LockFree
  /\ cache.stats.Sets < MaxSets
  /\ wpc' = [wpc EXCEPT ![w] = [op |-> "Set", key |-> key, p |-> p,
                                 evictionsBefore |-> cache.stats.Evictions]]
  /\ UNCHANGED <<cache, now, lastWrite, reqURI, sanitized, config, lastReq, limiterVars, client, edgeVars>>

\* one iteration of Set's eviction loop
SetEvict(w) ==
  /\ wpc[w].op = "Set"
  /\ MustEvict(cache, Len(wpc[w].p.Data))
  /\ \E k \in OldestKeys(cache) : cache' = evictOldest(cache, k)
  /\ UNCHANGED <<now, wpc, lastWrite, reqURI, sanitized, config, lastReq, limiterVars, client, edgeVars>>

\* the loop has ended: store the entry, release the lock, return
SetReturn(w) ==
  /\ wpc[w].op = "Set"
  /\ ~ MustEvict(cache, Len(wpc[w].p.Data))
  /\ cache' = SetStore(cache, wpc[w].key, NewEntry(cache, wpc[w].p, now))
  /\ lastWrite' = [op |-> "Set", key |-> wpc[w].key, p |-> wpc[w].p, at |-> now]
  /\ wpc' = [wpc EXCEPT ![w] = Idle]
  /\ UNCHANGED <<now, reqURI, sanitized, config, lastReq, limiterVars, client, edgeVars>>

\* Get under the read lock: look the key up and load the counter it will bump
GetBegin(w, key) ==
  /\ FreeWorker(w)
  /\ ~ WriteLocked
  /\ cache.stats.Hits + cache.stats.Misses + Cardinality({v \in Workers : wpc[v].op = "Get"}) < MaxGets
  /\ LET r == GetResult(cache, key, now)
     IN  /\ wpc' = [wpc EXCEPT ![w] =
                      [op |-> "Get", key |-> key, r |-> r, at |-> now,
                       present |-> key \in DOMAIN cache.data,
                       loaded |-> IF r.found THEN cache.stats.Hits ELSE cache.stats.Misses]]
         /\ cache' = [cache EXCEPT !.data = GetData(cache, key, now)]
  /\ UNCHANGED <<now, lastWrite, reqURI, sanitized, config, lastReq, limiterVars, client, edgeVars>>

\* Get stores the bumped counter, releases the read lock and returns
GetReturn(w) ==
  /\ wpc[w].op = "Get"
  /\ cache' = [cache EXCEPT !.stats =
                 IF wpc[w].r.found THEN [@ EXCEPT !.Hits = wpc[w].loaded + 1]
                 ELSE [@ EXCEPT !.Misses = wpc[w].loaded + 1]]
  /\ wpc' = [wpc EXCEPT ![w] = Idle]
  /\ UNCHANGED <<now, lastWrite, reqURI, sanitized, config, lastReq, limiterVars, client, edgeVars>>

Delete(key) ==
  /\ LockFree
  /\ key \in DOMAIN cache.data
  /\ cache' = DeleteKey(cache, key)
  /\ lastWrite' = [op |-> "Delete"]
  /\ UNCHANGED <<now, wpc, reqURI, sanitized, config, lastReq, limiterVars, client, edgeVars>>

Clear ==
  /\ LockFree
  /\ DOMAIN cache.data # {}
  /\ cache' = ClearAll(cache)
  /\ lastWrite' = [op |-> "Clear"]
  /\ UNCHANGED <<now, wpc, reqURI, sanitized, config, lastReq, limiterVars, client, edgeVars>>

\* the janitor's ticker fires
JanitorTick ==
  /\ LockFree
  /\ cache' = cleanupExpired(cache, now)
  /\ cache' # cache
  /\ lastWrite' = [op |-> "cleanupExpired"]
  /\ UNCHANGED <<now, wpc, reqURI, sanitized, config, lastReq, limiterVars, client, edgeVars>>

\* time passes
Tick ==
  /\ now < MaxTime
  /\ now' = now + 1
  /\ allowLog' = LogInstant(allowLog)
  /\ UNCHANGED <<cache, wpc, lastWrite, reqURI, sanitized, config, lastReq, limiter, client, edgeVars>>

\* where ProxyRequest goes on after the look into the cache: to the reading
\* of the cache statistics after a hit, into client.Do, or back to its caller
AfterLookup(outcome) ==
  IF outcome = "hit" THEN "stats" ELSE IF outcome = "pending" THEN "do" ELSE "done"

\* Service.ProxyRequest(reqURI, headers, host) through the validation and
\* cache.Get, which runs under c.mu
ProxyBeginStep(uri, headers, host) ==
  /\ LockFree
  /\ lastReq.pc = "done"
  /\ \E res \in {sanitizeRequestURI(uri)} :
       \E out \in {proxySanitized(config, cache, now, res, headers)} :
         /\ cache' = out.cache
         /\ lastReq' = [seq |-> lastReq.seq + 1, pc |-> AfterLookup(out.outcome),
                        uri |-> uri, headers |-> headers,
                        host |-> host, at |-> now, prev |-> Finished(lastReq),
                        outcome |-> out.outcome, resp |-> out.resp,
                        upstreamReq |-> out.upstreamReq, attempts |-> out.attempts,
                        fetched |-> NoResponse, do |-> NoDo, stats |-> NoStats,
                        sanitizedURI |-> IF res.ok THEN res.uri ELSE EmptyStr,
                        cacheBefore |-> cache, cacheAfter |-> out.cache]

\* a call of ProxyRequest by a caller of the engine
ProxyRequestBegin(uri, headers, host) ==
  /\ lastReq.seq < MaxRequests
  /\ ProxyBeginStep(uri, headers, host)
  /\ UNCHANGED <<now, wpc, lastWrite, reqURI, sanitized, config, limiterVars, client, edgeVars>>

\* ProxyRequest from the return of client.Do to cache.Set, or to its own
\* return where it does not store; outs are the outcomes it can come to
\* from the cache as it is, all with one response
Returned(done, up, outs) ==
  [lastReq EXCEPT !.pc = IF \A out \in outs : out.cache = cache THEN "done" ELSE "store",
                  !.outcome = (CHOOSE out \in outs : TRUE).outcome,
                  !.resp = (CHOOSE out \in outs : TRUE).resp,
                  !.attempts = done.attempts, !.cacheAfter = cache,
                  !.do = DoResult(done, up),
                  !.fetched = IF (CHOOSE out \in outs : TRUE).outcome = "ok"
                              THEN Fetched(up) ELSE @]

\* client.Do returns, the upstream having behaved as up: the upstream call
\* is recorded under m.mu, the body is read and rewritten
ProxyEndStep(up) ==
  /\ lastReq.pc = "do"
  /\ lastReq' = Returned(ClientDo(up.outs, config.UpstreamRetryCount), up,
                         proxyDone(config, cache, now, getCacheKey(lastReq.sanitizedURI),
                                   isCacheable(config, lastReq.sanitizedURI),
                                   lastReq.upstreamReq,
                                   ClientDo(up.outs, config.UpstreamRetryCount),
                                   lastReq.host, up))
  /\ metrics' = UpstreamRecorded(metrics, ClientDo(up.outs, config.UpstreamRetryCount), up,
                                 now - lastReq.at)

ProxyRequestEnd(up) ==
  /\ ProxyEndStep(up)
  /\ UNCHANGED <<now, cache, wpc, lastWrite, reqURI, sanitized, config, limiterVars, client, edge>>

\* s.cache.Set(cacheKey, bodyBytes, contentType, statusCode) under c.mu
ProxyStore ==
  /\ LockFree
  /\ lastReq.pc = "store"
  /\ \E out \in proxyStore(cache, now, getCacheKey(lastReq.sanitizedURI),
                           isCacheable(config, lastReq.sanitizedURI),
                           lastReq.upstreamReq, lastReq.attempts, lastReq.resp) :
       /\ cache' = out.cache
       /\ lastReq' = [lastReq EXCEPT !.pc = "stats", !.cacheAfter = out.cache]
  /\ UNCHANGED <<now, wpc, lastWrite, reqURI, sanitized, config, limiterVars, client, edgeVars>>

\* stats := s.cache.GetStats() under the read lock of c.mu
ProxyStats ==
  /\ ~ WriteLocked
  /\ lastReq.pc = "stats"
  /\ lastReq' = [lastReq EXCEPT !.pc = "update", !.stats = GetStats(cache)]
  /\ UNCHANGED <<now, cache, wpc, lastWrite, reqURI, sanitized, config, limiterVars, client, edgeVars>>

\* s.metrics.UpdateCacheStats(...) under m.mu, and ProxyRequest returns
ProxyUpdate ==
  /\ lastReq.pc = "update"
  /\ lastReq' = [lastReq EXCEPT !.pc = "done"]
  /\ metrics' = UpdateCacheStats(metrics, lastReq.stats)
  /\ UNCHANGED <<now, cache, wpc, lastWrite, reqURI, sanitized, config, limiterVars, client, edge>>

\* the validator is applied to the request URI
SanitizeCall ==
  /\ ~ sanitized.called
  /\ sanitized' = [called |-> TRUE, res |-> sanitizeRequestURI(reqURI)]
  /\ UNCHANGED <<reqURI, cache, now, wpc, lastWrite, config, lastReq, limiterVars, client, edgeVars>>

\* Limiter.Allow(ip): the whole call runs under l.mu, so concurrent callers
\* run it one after the other, in any order
AllowCall(ip) ==
  /\ limiter.enabled
  /\ allowLog.calls[ip] <= limiter.burst
  /\ \E r \in {Allow(limiter, ip, now)} :
       /\ limiter' = r.limiter
       /\ allowLog' = LogAllow(allowLog, ip, r.ok)
  /\ UNCHANGED <<now, cache, wpc, lastWrite, reqURI, sanitized, config, lastReq, client, edgeVars>>

\* the cleanup goroutine's ticker fires: one pass under l.mu
LimiterCleanup ==
  /\ limiter.enabled
  /\ limiter' = cleanup(limiter, now)
  /\ limiter' # limiter
  /\ UNCHANGED <<allowLog, now, cache, wpc, lastWrite, reqURI, sanitized, config, lastReq, client, edgeVars>>

\* time passes: d ticks
Advance(d) ==
  /\ now + d <= MaxClock
  /\ d = 1 => now % (CleanupInterval * TicksPerSecond) < FineTicks
  /\ now' = now + d
  /\ allowLog' = LogInstant(allowLog)
  /\ UNCHANGED <<limiter, cache, wpc, lastWrite, reqURI, sanitized, config, lastReq, client, edgeVars>>

\* Client.Do is called
ClientDoCall ==
  /\ client.pc = "idle"
  /\ client' = [client EXCEPT !.pc = "loop"]
  /\ UNCHANGED <<now, cache, wpc, lastWrite, reqURI, sanitized, config, lastReq, limiterVars, edgeVars>>

\* the loop body is entered: time.Sleep before a retry has ended, and the
\* underlying client is called
ClientSleep ==
  /\ client.pc = "loop"
  /\ LoopRuns(client.attempt, client.retryCount)
  /\ client' = [client EXCEPT !.pc = "call", !.sleeps = SleepBefore(client)]
  /\ UNCHANGED <<now, cache, wpc, lastWrite, reqURI, sanitized, config, lastReq, limiterVars, edgeVars>>

\* the blocking call of the underlying client returns out
ClientAttempt(out) ==
  /\ client.pc = "call"
  /\ client' = DoAttempt(client, out)
  /\ UNCHANGED <<now, cache, wpc, lastWrite, reqURI, sanitized, config, lastReq, limiterVars, edgeVars>>

\* the loop has ended with the attempts used up: the upstream error
ClientDoFail ==
  /\ client.pc = "loop"
  /\ ~ LoopRuns(client.attempt, client.retryCount)
  /\ client' = [client EXCEPT !.pc = "done", !.err = "upstream"]
  /\ UNCHANGED <<now, cache, wpc, lastWrite, reqURI, sanitized, config, lastReq, limiterVars, edgeVars>>

\* a request enters the chain: Recovery, RequestID, CORS, SecurityHeaders and
\* Logger touch nothing that is shared, the Metrics middleware takes the
\* time and bumps the gauge under m.mu; the RateLimit middleware is not in
\* the chain, or passes the request on, when there is no limiting
EdgeEnter(ip, uri, sent, host, generated) ==
  /\ edge.pc \in {"idle", "done"}
  /\ edge.seq < MaxEdgeRequests
  /\ HeadersParse(sent)
  /\ edge' = EdgeRequest(edge, metrics, lastReq.seq, ip, uri, sent, host,
                         RequestID(sent, host, generated), now,
                         IF RateLimit(config, limiter, ip, now).verdict \in {"absent", "off"}
                         THEN RateLimit(config, limiter, ip, now).verdict ELSE "none",
                         IF RateLimit(config, limiter, ip, now).verdict \in {"absent", "off"}
                         THEN "allowed" ELSE "entered")
  /\ metrics' = IncRequestsInFlight(metrics)
  /\ UNCHANGED <<now, cache, wpc, lastWrite, reqURI, sanitized, config, lastReq, client,
                 limiterVars>>

\* the RateLimit middleware: limiter.Allow(ip) under l.mu
EdgeLimit ==
  /\ edge.pc = "entered"
  /\ \E r \in {RateLimit(config, limiter, edge.ip, now)} :
       /\ limiter' = r.limiter
       /\ allowLog' = LogAllow(allowLog, edge.ip, r.verdict = "allowed")
       /\ edge' = [edge EXCEPT !.pc = IF r.verdict = "denied" THEN "denied" ELSE "allowed",
                               !.verdict = r.verdict, !.at = now]
  /\ UNCHANGED <<now, cache, wpc, lastWrite, reqURI, sanitized, config, lastReq, client,
                 metrics>>

\* a request that the limiter denies: the drop is counted under m.mu, the
\* answer is 429 and the chain ends
EdgeDeny ==
  /\ edge.pc = "denied"
  /\ edge' = [edge EXCEPT !.pc = "answered",
                          !.resp = Passed(config, edge.id, TooManyRequests)]
  /\ metrics' = RecordRateLimitDrop(metrics)
  /\ UNCHANGED <<now, cache, wpc, lastWrite, reqURI, sanitized, config, lastReq, client,
                 limiterVars>>

\* the answers of Ping, Health and Metrics; Export reads the metrics under
\* the read lock of m.mu
Served(route) ==
  CASE route = "ping" -> {Ping}
    [] route = "health" -> {Health(now, fig) : fig \in HealthFigures}
    [] OTHER -> {Metrics(metrics, now, ro, uo) :
                   ro \in Orders(DOMAIN metrics.requestsTotal),
                   uo \in Orders(DOMAIN metrics.upstreamRequestsTotal)}

\* a request that has passed the limiter is answered by Ping, Health or
\* Metrics
EdgeServe ==
  /\ edge.pc = "allowed"
  /\ Route(config, PathOriginal(edge.host, edge.uri)) # "proxy"
  /\ \E resp \in Served(Route(config, PathOriginal(edge.host, edge.uri))) :
       edge' = [edge EXCEPT !.pc = "answered", !.resp = Passed(config, edge.id, resp)]
  /\ UNCHANGED <<now, cache, wpc, lastWrite, reqURI, sanitized, config, lastReq, client,
                 limiterVars, metrics>>

\* a request that has passed the limiter is routed to Handler.Proxy, which
\* calls ProxyRequest
EdgeProxy ==
  /\ edge.pc = "allowed"
  /\ Route(config, PathOriginal(edge.host, edge.uri)) = "proxy"
  /\ ProxyBeginStep(TrimRoutePrefix(config, RequestURI(edge.host, edge.uri)),
                    ProxyHeaders(edge.sent, edge.host, edge.ip),
                    getHostName(edge.sent, edge.host, edge.uri))
  /\ edge' = [edge EXCEPT !.pc = "proxying"]
  /\ UNCHANGED <<now, wpc, lastWrite, reqURI, sanitized, config, client, limiterVars, metrics>>

\* an OPTIONS request to a server with CORS on: the CORS middleware answers
\* it, and SecurityHeaders, Logger, Metrics, RateLimit and the routes are
\* not reached
EdgePreflight(ip, uri, sent, host, generated) ==
  /\ edge.pc \in {"idle", "done"}
  /\ edge.seq < MaxEdgeRequests
  /\ HeadersParse(sent)
  /\ config.EnableCORS
  /\ edge' = [EdgeRequest(edge, metrics, lastReq.seq, ip, uri, sent, host,
                          RequestID(sent, host, generated), now, "preflight", "done")
                EXCEPT !.resp = SetRequestID(RequestID(sent, host, generated),
                                             Preflight(config))]
  /\ UNCHANGED <<now, cache, wpc, lastWrite, reqURI, sanitized, config, lastReq, client,
                 limiterVars, metrics>>

\* ProxyRequest has returned and Handler.Proxy answers; a panic of the engine
\* unwinds the chain
EdgeProxyEnd ==
  /\ edge.pc = "proxying"
  /\ lastReq.pc = "done"
  /\ edge' = IF lastReq.outcome = "panic" THEN [edge EXCEPT !.pc = "panicking"]
             ELSE [edge EXCEPT !.pc = "answered",
                               !.resp = Passed(config, edge.id,
                                               ProxyResponse(lastReq.outcome, lastReq.resp))]
  /\ UNCHANGED <<now, cache, wpc, lastWrite, reqURI, sanitized, config, lastReq, client,
                 limiterVars, metrics>>

\* the Metrics middleware after c.Next(): m.RecordRequest(statusCode,
\* duration) under m.mu
EdgeRecord ==
  /\ edge.pc = "answered"
  /\ edge' = [edge EXCEPT !.pc = "recorded"]
  /\ metrics' = RecordRequest(metrics, edge.resp.StatusCode, now - edge.start)
  /\ UNCHANGED <<now, cache, wpc, lastWrite, reqURI, sanitized, config, lastReq, client,
                 limiterVars>>

\* the deferred m.DecRequestsInFlight() under m.mu, and the chain returns;
\* the Recovery middleware answers a panic
EdgeLeave ==
  /\ edge.pc \in {"recorded", "panicking"}
  /\ edge' = IF edge.pc = "panicking"
             THEN [edge EXCEPT !.pc = "done",
                               !.resp = Passed(config, edge.id,
                                               ProxyResponse("panic", NoResponse))]
             ELSE [edge EXCEPT !.pc = "done"]
  /\ metrics' = MetricsLeave(metrics, edge.pc = "panicking")
  /\ UNCHANGED <<now, cache, wpc, lastWrite, reqURI, sanitized, config, lastReq, client,
                 limiterVars>>

(***************************************************************************)
(* Specifications.                                                         *)
(***************************************************************************)
InitValidatorIdle == reqURI = EmptyStr /\ sanitized = NotSanitized

InitCache ==
  /\ config = DefaultConfig
  /\ lastReq = NoRequest
  /\ cache = NewCache(TTL, MaxSize)
  /\ now = 0
  /\ wpc = [w \in Workers |-> Idle]
  /\ lastWrite = NoWrite
  /\ limiter = NoLimiter
  /\ allowLog = NoAllowLog
  /\ client = NewClient(config)
  /\ edge = NoEdgeRequest
  /\ metrics = NewMetrics

\* the cache under concurrent callers and its janitor
Init == InitValidatorIdle /\ InitCache

Next ==
  \/ \E w \in Workers, key \in CacheKeys, p \in Payloads : SetBegin(w, key, p)
  \/ \E w \in Workers : SetEvict(w)
  \/ \E w \in Workers : SetReturn(w)
  \/ \E w \in Workers, key \in CacheKeys : GetBegin(w, key)
  \/ \E w \in Workers : GetReturn(w)
  \/ \E key \in CacheKeys : Delete(key)
  \/ Clear
  \/ JanitorTick
  \/ Tick

Spec == Init /\ [][Next]_vars

\* the validator on every request URI up to MaxURILen characters
InitSanitize ==
  /\ reqURI \in URIInputs
  /\ sanitized = NotSanitized
  /\ InitCache

NextSanitize == SanitizeCall

SpecSanitize == InitSanitize /\ [][NextSanitize]_vars

\* a service built by NewService from one of the configurations
InitEngine ==
  /\ InitValidatorIdle
  /\ config \in Configs
  /\ cache = NewCache(config.CacheTTL, config.CacheMaxSize)
  /\ now = 0
  /\ wpc = [w \in Workers |-> Idle]
  /\ lastWrite = NoWrite
  /\ limiter = NoLimiter
  /\ allowLog = NoAllowLog
  /\ client = NewClient(config)
  /\ edge = NoEdgeRequest
  /\ metrics = NewMetrics
  /\ lastReq = NoRequest

NextEngine ==
  \/ \E uri \in EngineURIs, caller \in EngineCallers :
        ProxyRequestBegin(uri, caller.headers, caller.host)
  \/ \E up \in UpstreamBehaviours : ProxyRequestEnd(up)
  \/ ProxyStore
  \/ ProxyStats
  \/ ProxyUpdate
  \/ JanitorTick
  \/ Tick

SpecEngine == InitEngine /\ [][NextEngine]_vars

\* a limiter built by ratelimit.New, its callers and its cleanup goroutine
InitLimiter ==
  /\ InitValidatorIdle
  /\ config = DefaultConfig
  /\ lastReq = NoRequest
  /\ cache = NewCache(TTL, MaxSize)
  /\ now = 0
  /\ wpc = [w \in Workers |-> Idle]
  /\ lastWrite = NoWrite
  /\ \E c \in LimiterConfigs : limiter = NewLimiter(c.rps, c.burst)
  /\ allowLog = NoAllowLog
  /\ client = NewClient(config)
  /\ edge = NoEdgeRequest
  /\ metrics = NewMetrics

NextLimiter ==
  \/ \E ip \in Identities : AllowCall(ip)
  \/ LimiterCleanup
  \/ \E d \in {1, CleanupInterval * TicksPerSecond} : Advance(d)

SpecLimiter == InitLimiter /\ [][NextLimiter]_vars

\* one identity that draws on a large bucket, stays away until the janitor's
\* first pass after the idle limit, and comes back
InitLimiterWindow ==
  /\ InitValidatorIdle
  /\ config = DefaultConfig
  /\ lastReq = NoRequest
  /\ cache = NewCache(TTL, MaxSize)
  /\ now = 0
  /\ wpc = [w \in Workers |-> Idle]
  /\ lastWrite = NoWrite
  /\ limiter = NewLimiter(WindowConfig.rps, WindowConfig.burst)
  /\ allowLog = NoAllowLog
  /\ client = NewClient(config)
  /\ edge = NoEdgeRequest
  /\ metrics = NewMetrics

NextLimiterWindow ==
  \/ AllowCall(WindowIdentity)
  \/ LimiterCleanup
  \/ Advance((IdleLimit + CleanupInterval) * TicksPerSecond)

SpecLimiterWindow == InitLimiterWindow /\ [][NextLimiterWindow]_vars

\* a client built by NewClient with a retry count that Config.Validate
\* accepts, and one call of Do; the underlying client returns within its
\* timeouts and the sleeps end, so the loop is not left waiting
InitClient ==
  /\ InitValidatorIdle
  /\ \E n \in 0..MaxRetryCount : config = [DefaultConfig EXCEPT !.UpstreamRetryCount = n]
  /\ lastReq = NoRequest
  /\ cache = NewCache(TTL, MaxSize)
  /\ now = 0
  /\ wpc = [w \in Workers |-> Idle]
  /\ lastWrite = NoWrite
  /\ limiter = NoLimiter
  /\ allowLog = NoAllowLog
  /\ client = NewClient(config)
  /\ edge = NoEdgeRequest
  /\ metrics = NewMetrics

NextClient ==
  \/ ClientDoCall
  \/ ClientSleep
  \/ \E out \in AttemptResults : ClientAttempt(out)
  \/ ClientDoFail

SpecClient ==
  /\ InitClient
  /\ [][NextClient]_vars
  /\ WF_vars(ClientSleep)
  /\ WF_vars(\E out \in AttemptResults : ClientAttempt(out))
  /\ WF_vars(ClientDoFail)

\* the server of main: the limiter is built when RateLimitEnabled is set
InitEdge ==
  /\ InitValidatorIdle
  /\ config \in Configs
  /\ cache = NewCache(config.CacheTTL, config.CacheMaxSize)
  /\ now = 0
  /\ wpc = [w \in Workers |-> Idle]
  /\ lastWrite = NoWrite
  /\ lastReq = NoRequest
  /\ limiter = IF config.RateLimitEnabled
               THEN NewLimiter(config.RateLimitRPS, config.RateLimitBurst)
               ELSE NoLimiter
  /\ allowLog = NoAllowLog
  /\ client = NewClient(config)
  /\ edge = NoEdgeRequest
  /\ metrics = NewMetrics

\* the server of main, serving the requests of one address one after the
\* other
NextEdge ==
  \/ \E uri \in EdgeURIs, caller \in EdgeCallers, id \in GeneratedIDs :
        EdgeEnter(WindowIdentity, uri, caller.sent, caller.host, id)
  \/ EdgeLimit
  \/ EdgeDeny
  \/ EdgeServe
  \/ EdgeProxy
  \/ \E up \in UpstreamBehaviours : ProxyRequestEnd(up)
  \/ ProxyStore
  \/ ProxyStats
  \/ ProxyUpdate
  \/ EdgeProxyEnd
  \/ EdgeRecord
  \/ EdgeLeave
  \/ JanitorTick
  \/ Tick

\* the server of main with OPTIONS requests among the requests
NextEdgeMethods ==
  \/ NextEdge
  \/ \E uri \in EdgeURIs, caller \in EdgeCallers, id \in GeneratedIDs :
        EdgePreflight(WindowIdentity, uri, caller.sent, caller.host, id)

SpecEdge == InitEdge /\ [][NextEdge]_vars

SpecEdgeMethods == InitEdge /\ [][NextEdgeMethods]_vars

(***************************************************************************)
(* Properties of the cache, checked under Spec.                            *)
(***************************************************************************)
RECURSIVE SumBodyLen(_, _)
SumBodyLen(m, keys) ==
  IF keys = {} THEN 0
  ELSE LET k == CHOOSE x \in keys : TRUE
       IN  Len(m[k].Data) + SumBodyLen(m, keys \ {k})

\* C1: in every reachable state, also between the iterations of Set's
\* eviction loop and whatever Set, Get, Delete, Clear, eviction and janitor
\* sweeps preceded it, currSize is the sum of the body lengths in the map.
C1_SizeAccounting == cache.currSize = SumBodyLen(cache.data, DOMAIN cache.data)

\* an eviction has happened and two entries, one of them non-empty, are held
C1_Witness ==
  /\ cache.stats.Evictions >= 1
  /\ Cardinality(DOMAIN cache.data) >= 2
  /\ cache.currSize >= 1
  /\ cache.currSize = SumBodyLen(cache.data, DOMAIN cache.data)

\* C2: whenever the last writer was a Set that has returned, currSize is at
\* most the configured maximum.
C2_CapacityBound ==
  (lastWrite.op = "Set" /\ ~ WriteLocked) => cache.currSize <= cache.maxSize

\* C3: a Get that runs with nothing but a Set of the same key before it, and
\* within the TTL of that Set, hits and returns the body, content type and
\* status that were passed to Set.
C3_RoundTrip ==
  \A w \in Workers :
    (/\ wpc[w].op = "Get"
     /\ lastWrite.op = "Set"
     /\ lastWrite.key = wpc[w].key
     /\ wpc[w].at < lastWrite.at + cache.ttl)
    => /\ wpc[w].r.found
       /\ wpc[w].r.entry.Data = lastWrite.p.Data
       /\ wpc[w].r.entry.ContentType = lastWrite.p.ContentType
       /\ wpc[w].r.entry.StatusCode = lastWrite.p.StatusCode

\* a Get right after the Set of a non-empty body under the same key
C3_Witness ==
  \E w \in Workers :
    /\ wpc[w].op = "Get"
    /\ lastWrite.op = "Set"
    /\ lastWrite.key = wpc[w].key
    /\ wpc[w].at < lastWrite.at + cache.ttl
    /\ wpc[w].r.found
    /\ Len(lastWrite.p.Data) >= 1

\* C4 as amended: Get returns (entry, true) exactly when the key is present
\* and now <= expiration (the entry is still served at its expiration
\* instant), and (nil, false) otherwise; Get removes no entry.
C4_GetHitIffNotAfterExpiry ==
  \A w \in Workers :
    wpc[w].op = "Get" =>
      LET k == wpc[w].key
          live == k \in DOMAIN cache.data /\ wpc[w].at <= cache.data[k].ExpiresAt
      IN  /\ wpc[w].r.found <=> live
          /\ wpc[w].r.found => wpc[w].r.entry = cache.data[k]
          /\ ~ wpc[w].r.found => wpc[w].r.entry = NilEntry
          /\ wpc[w].present => k \in DOMAIN cache.data

\* a Get at the expiration instant of a present entry, and it hits
C4_Witness ==
  \E w \in Workers :
    /\ wpc[w].op = "Get"
    /\ wpc[w].present
    /\ wpc[w].at = cache.data[wpc[w].key].ExpiresAt
    /\ wpc[w].r.found

\* C4 as claimed: a hit exactly when the key is present and now < expiration.
C4_GetHitIffBeforeExpiry ==
  \A w \in Workers :
    wpc[w].op = "Get" =>
      LET k == wpc[w].key
          live == k \in DOMAIN cache.data /\ wpc[w].at < cache.data[k].ExpiresAt
      IN  /\ wpc[w].r.found <=> live
          /\ wpc[w].r.found => wpc[w].r.entry = cache.data[k]
          /\ ~ wpc[w].r.found => wpc[w].r.entry = NilEntry
          /\ wpc[w].present => k \in DOMAIN cache.data

(***************************************************************************)
(* Properties of the validator, checked under SpecSanitize.                *)
(***************************************************************************)
\* C7: sanitize fails for every input that contains "://".
C7_SchemeSeparatorRejected ==
  (sanitized.called /\ Contains(reqURI, <<":", "/", "/">>)) => ~ sanitized.res.ok

\* an input with "://" behind a leading slash has been rejected
C7_Witness ==
  /\ sanitized.called
  /\ HasPrefix(reqURI, <<"/">>)
  /\ Contains(reqURI, <<":", "/", "/">>)
  /\ ~ sanitized.res.ok

\* C8: sanitize fails for every input that begins with "//".
C8_ProtocolRelativeRejected ==
  (sanitized.called /\ HasPrefix(reqURI, <<"/", "/">>)) => ~ sanitized.res.ok

\* an input that begins with "//" and holds no "://" has been rejected
C8_Witness ==
  /\ sanitized.called
  /\ HasPrefix(reqURI, <<"/", "/">>)
  /\ ~ Contains(reqURI, <<":", "/", "/">>)
  /\ sanitized.res.err = "request URI must not be a protocol-relative URL"

\* the part of a request URI before its first "?" or "#"
RawPath(uri) == Cut(Cut(uri, <<"#">>).before, <<"?">>).before

\* C9 as amended: sanitize fails for every input that contains ".." in its
\* path, the part before the first "?" or "#".
C9_TraversalInPathRejected ==
  (sanitized.called /\ Contains(RawPath(reqURI), <<".", ".">>)) => ~ sanitized.res.ok

\* an absolute path with ".." in it has been rejected as a traversal
C9_Witness ==
  /\ sanitized.called
  /\ Contains(RawPath(reqURI), <<".", ".">>)
  /\ sanitized.res.err = "request URI must not contain directory traversal sequences"

\* C9 as claimed: sanitize fails for every input that contains "..", be it
\* in the path, the query or the fragment.
C9_TraversalAnywhereRejected ==
  (sanitized.called /\ Contains(reqURI, <<".", ".">>)) => ~ sanitized.res.ok

\* C10: the result of an accepted input begins with "/" and, where url.Parse
\* accepts it, parses to an empty scheme and an empty host.
C10_ResultHasNoSchemeNoHost ==
  (sanitized.called /\ sanitized.res.ok) =>
    /\ HasPrefix(sanitized.res.uri, <<"/">>)
    /\ ~ Parse(sanitized.res.uri).err =>
         /\ Parse(sanitized.res.uri).Scheme = EmptyStr
         /\ Parse(sanitized.res.uri).Host = EmptyStr

\* C11: sanitize is idempotent on its accepted outputs: when it accepts an
\* input with result r, it accepts r as well and returns exactly r.
C11_IdempotentOnAccepted ==
  (sanitized.called /\ sanitized.res.ok) =>
    /\ sanitizeRequestURI(sanitized.res.uri).ok
    /\ sanitizeRequestURI(sanitized.res.uri).uri = sanitized.res.uri

\* the input begins with a percent-encoded slash
HasEncodedSlashPrefix(uri) ==
  \/ HasPrefix(uri, <<"%", "2", "f">>)
  \/ HasPrefix(uri, <<"%", "2", "F">>)

\* the input has a path, and the path does not begin with a slash, be it
\* percent-encoded
HasRelativePath(uri) ==
  /\ uri # EmptyStr
  /\ ~ HasPrefix(uri, <<"/">>)
  /\ ~ HasPrefix(uri, <<"?">>)
  /\ ~ HasPrefix(uri, <<"#">>)
  /\ ~ HasEncodedSlashPrefix(uri)

\* C12 as amended: sanitize fails for every non-empty input that begins with
\* none of "/", "?", "#" and a percent-encoded slash.
C12_RelativePathRejected ==
  (sanitized.called /\ HasRelativePath(reqURI)) => ~ sanitized.res.ok

\* a relative path that url.Parse accepts has been rejected for its path
C12_Witness ==
  /\ sanitized.called
  /\ HasRelativePath(reqURI)
  /\ sanitized.res.err = "request URI path must start with /"

\* C12 as claimed: sanitize fails for every non-empty input that does not
\* begin with "/", inputs made only of a query or a fragment included.
C12_NoLeadingSlashRejected ==
  (sanitized.called /\ reqURI # EmptyStr /\ ~ HasPrefix(reqURI, <<"/">>)) =>
    ~ sanitized.res.ok

(***************************************************************************)
(* Properties of the rate limiter, checked under SpecLimiter and           *)
(* SpecLimiterWindow.                                                      *)
(***************************************************************************)
\* C13: among the Allow calls made for one identity at one instant, in any
\* order of the concurrent callers, at most burst return true.
C13_BurstBound ==
  limiter.enabled => \A ip \in Identities : allowLog.grants[ip] <= limiter.burst

\* after the clock has moved, an identity has had burst calls granted and a
\* further call denied at one instant
C13_Witness ==
  /\ limiter.enabled
  /\ now > 0
  /\ \E ip \in Identities :
       /\ allowLog.grants[ip] = limiter.burst
       /\ allowLog.calls[ip] > limiter.burst

\* C14: counted from time 0, when every bucket is full, the calls granted to
\* one identity within T seconds are at most burst + rps * T.
C14_WindowBound ==
  limiter.enabled =>
    \A ip \in Identities :
      allowLog.total[ip] * TicksPerSecond <= Full(limiter) + limiter.rps * now

\* C15: every bucket holds at least 0 and at most burst tokens, after every
\* Allow call and every pass of the janitor.
C15_TokensInRange ==
  limiter.enabled =>
    \A ip \in DOMAIN limiter.buckets :
      /\ limiter.buckets[ip].tokens >= 0
      /\ limiter.buckets[ip].tokens <= Full(limiter)

\* a bucket left alone for a minute or more has been refilled to the cap by
\* a granted call, and another bucket has been emptied
C15_Witness ==
  /\ limiter.enabled
  /\ \E ip \in DOMAIN limiter.buckets :
       /\ limiter.buckets[ip].lastUpdate >= CleanupInterval * TicksPerSecond
       /\ limiter.buckets[ip].tokens = Full(limiter) - TicksPerSecond
       /\ allowLog.total[ip] > limiter.burst
  /\ \E ip \in DOMAIN limiter.buckets : ~ HasToken(limiter.buckets[ip])

(***************************************************************************)
(* Properties of the upstream client, checked under SpecClient.            *)
(***************************************************************************)
\* every attempt made so far failed with an error that shouldRetry accepts
AllRetryable(outs) == \A i \in 1..Len(outs) : outs[i] \in {"timeout", "closed"}

\* C16: a call of Client.Do ends, it makes at most 1 + retryCount attempts
\* on the underlying client, and exactly 1 + retryCount when every attempt
\* fails with a retryable error.
C16_RetryBound ==
  /\ [](Len(client.outs) <= 1 + client.retryCount)
  /\ []((client.pc = "done" /\ AllRetryable(client.outs)) =>
          Len(client.outs) = 1 + client.retryCount)
  /\ (client.pc = "loop") ~> (client.pc = "done")

\* a call with retries has ended after 1 + retryCount retryable failures
C16_Witness ==
  /\ client.pc = "done"
  /\ client.retryCount > 0
  /\ AllRetryable(client.outs)
  /\ Len(client.outs) = 1 + client.retryCount
  /\ client.err = "upstream"

\* C17: every attempt but the last failed with a timeout or a closed
\* connection; after a success or any other error the call has ended
\* without a further attempt.
C17_RetryPolicy ==
  /\ \A i \in 1..(Len(client.outs) - 1) : client.outs[i] \in {"timeout", "closed"}
  /\ (Len(client.outs) > 0 /\ client.outs[Len(client.outs)] \notin {"timeout", "closed"}) =>
       client.pc = "done"

\* a call that could have retried has ended on an error other than timeout
\* and closed connection, after a retry
C17_Witness ==
  /\ client.pc = "done"
  /\ Len(client.outs) > 1
  /\ Len(client.outs) <= client.retryCount
  /\ client.outs[Len(client.outs)] \notin {"ok", "timeout", "closed"}

(***************************************************************************)
(* Properties of the engine, checked under SpecEngine.                     *)
(***************************************************************************)
\* the validator turns the request URI down, or the path parsed from the
\* sanitized URI (none, if it does not parse) is not on the allow-list
RejectedByValidator(uri) ==
  \/ ~ sanitizeRequestURI(uri).ok
  \/ Parse(SanitizedURI(uri)).err
  \/ ~ isAllowedPath(Parse(SanitizedURI(uri)).Path)

\* C5: a call of ProxyRequest with a URI that sanitize rejects, or whose
\* sanitized path is not on the allow-list, returns a validation error, makes
\* no upstream call and leaves the cache as it was, counters included.
C5_RejectedIsValidationError ==
  (lastReq.outcome # "none" /\ RejectedByValidator(lastReq.uri)) =>
    /\ lastReq.outcome = "validation_error"
    /\ lastReq.upstreamReq = NoUpstreamRequest
    /\ lastReq.attempts = 0
    /\ lastReq.cacheAfter = lastReq.cacheBefore

\* the scheme and the host of the two upstream origins, written out
OriginScheme(origin) ==
  CASE origin = <<"h", "t", "t", "p", "s", ":", "/", "/", "w", "w", "w", ".", "g", "o", "o", "g", "l", "e", "-", "a", "n", "a", "l", "y", "t", "i", "c", "s", ".", "c", "o", "m">> -> <<"h", "t", "t", "p", "s">>
    [] origin = <<"h", "t", "t", "p", ":", "/", "/", "G", ":", "8">> -> <<"h", "t", "t", "p">>

\* the host of the origin as the configuration spells it
OriginHost(origin) ==
  CASE origin = <<"h", "t", "t", "p", "s", ":", "/", "/", "w", "w", "w", ".", "g", "o", "o", "g", "l", "e", "-", "a", "n", "a", "l", "y", "t", "i", "c", "s", ".", "c", "o", "m">> -> <<"w", "w", "w", ".", "g", "o", "o", "g", "l", "e", "-", "a", "n", "a", "l", "y", "t", "i", "c", "s", ".", "c", "o", "m">>
    [] origin = <<"h", "t", "t", "p", ":", "/", "/", "G", ":", "8">> -> <<"G", ":", "8">>

\* the host of the origin in lower case
OriginHostLower(origin) ==
  CASE origin = <<"h", "t", "t", "p", "s", ":", "/", "/", "w", "w", "w", ".", "g", "o", "o", "g", "l", "e", "-", "a", "n", "a", "l", "y", "t", "i", "c", "s", ".", "c", "o", "m">> -> <<"w", "w", "w", ".", "g", "o", "o", "g", "l", "e", "-", "a", "n", "a", "l", "y", "t", "i", "c", "s", ".", "c", "o", "m">>
    [] origin = <<"h", "t", "t", "p", ":", "/", "/", "G", ":", "8">> -> <<"g", ":", "8">>

\* C6 (as the code has it): every upstream request ProxyRequest issues has
\* the scheme of the configured origin and its host in lower case, whatever
\* the request URI, the headers and the public host of the call; so calls
\* that differ in these only reach the same scheme and host.
C6_UpstreamTargetFromConfig ==
  (lastReq.outcome # "none" /\ lastReq.upstreamReq # NoUpstreamRequest) =>
    /\ lastReq.upstreamReq.Scheme = OriginScheme(config.GoogleOrigin)
    /\ lastReq.upstreamReq.Host = OriginHostLower(config.GoogleOrigin)

\* an upstream call has been made for a request URI whose sanitized form
\* parses with a host of its own, by a caller that sent a Host header, to an
\* origin that the configuration spells in upper case
C6_Witness ==
  /\ lastReq.outcome \in {"ok", "upstream_error"}
  /\ lastReq.attempts >= 1
  /\ Parse(SanitizedURI(lastReq.uri)).Host # EmptyStr
  /\ <<"H", "o", "s", "t">> \in DOMAIN lastReq.headers
  /\ OriginHost(config.GoogleOrigin) # OriginHostLower(config.GoogleOrigin)
  /\ lastReq.upstreamReq.Host = OriginHostLower(config.GoogleOrigin)

\* C6 (as stated): every upstream request has the scheme and the host of the
\* configured origin as the configuration spells them.
C6_TargetAsConfigured ==
  (lastReq.outcome # "none" /\ lastReq.upstreamReq # NoUpstreamRequest) =>
    /\ lastReq.upstreamReq.Scheme = OriginScheme(config.GoogleOrigin)
    /\ lastReq.upstreamReq.Host = OriginHost(config.GoogleOrigin)

\* the cache key of the last request
LastKey == getCacheKey(SanitizedURI(lastReq.uri))

\* the last call follows a call for the same request URI that returned an
\* upstream response of status 200, the URI is cacheable, and when the last
\* call began its entry was in the cache and not past its expiry
FollowsCachedOK ==
  /\ lastReq.outcome # "none"
  /\ lastReq.prev.outcome = "ok"
  /\ lastReq.prev.resp.StatusCode = 200
  /\ lastReq.prev.uri = lastReq.uri
  /\ isCacheable(config, SanitizedURI(lastReq.uri))
  /\ LastKey \in DOMAIN lastReq.cacheBefore.data
  /\ lastReq.at <= lastReq.cacheBefore.data[LastKey].ExpiresAt

\* C18: a call that follows a call for the same cacheable URI which returned
\* status 200, while the entry is in the cache and within its TTL, returns
\* the same status, body and content type and makes no upstream call.
C18_HitShortCircuitsUpstream ==
  FollowsCachedOK =>
    /\ lastReq.outcome = "hit"
    /\ lastReq.resp = lastReq.prev.resp
    /\ lastReq.upstreamReq = NoUpstreamRequest
    /\ lastReq.attempts = 0

\* a script rewritten for one caller's host has been served from the cache
\* to a caller with another host
C18_Witness ==
  /\ FollowsCachedOK
  /\ lastReq.outcome = "hit"
  /\ lastReq.resp.Body # ScriptBody
  /\ lastReq.resp.Body # EmptyStr
  /\ lastReq.attempts = 0

\* the last call has got its answer from the client and has stored an entry
LastCallStored ==
  /\ lastReq.outcome \notin {"none", "pending"}
  /\ lastReq.cacheAfter.stats.Sets # lastReq.cacheBefore.stats.Sets

\* C19: ProxyRequest stores only when caching is enabled, the basename of
\* the path matches the key pattern, the upstream call succeeded and its
\* status is 200; every entry of the engine's cache has status 200 and a
\* key that is a sanitized URI with a path on the allow-list.
C19_OnlyOKCached ==
  /\ LastCallStored =>
       /\ config.CacheEnabled
       /\ Match(config.CacheKeyPattern, Base(Parse(SanitizedURI(lastReq.uri)).Path))
       /\ lastReq.outcome = "ok"
       /\ lastReq.attempts >= 1
       /\ lastReq.resp.StatusCode = 200
  /\ \A key \in DOMAIN cache.data :
       /\ cache.data[key].StatusCode = 200
       /\ \E uri \in EngineURIs :
            /\ sanitizeRequestURI(uri).ok
            /\ key = SanitizedURI(uri)
       /\ isAllowedPath(Parse(key).Path)

\* a cacheable URI has got a response of another status, which is not in
\* the cache, while a response of status 200 has been stored before
C19_Witness ==
  /\ lastReq.outcome = "ok"
  /\ lastReq.resp.StatusCode # 200
  /\ isCacheable(config, SanitizedURI(lastReq.uri))
  /\ ~ LastCallStored
  /\ lastReq.cacheAfter.data = lastReq.cacheBefore.data
  /\ DOMAIN cache.data # {}

(***************************************************************************)
(* Properties of the edge, checked under SpecEdge.                         *)
(***************************************************************************)
\* the last request has been denied by the limiter and has left the chain
LastDenied == edge.seq > 0 /\ edge.pc = "done" /\ edge.verdict = "denied"

\* the last request is the second of two requests of one address that came
\* before the limiter at one instant, at a server with rate 1 and burst 1,
\* and has left the chain
SecondOfTwoImmediate ==
  /\ config.RateLimitEnabled
  /\ config.RateLimitRPS = 1
  /\ config.RateLimitBurst = 1
  /\ edge.seq = 2
  /\ edge.pc = "done"
  /\ edge.prev.ip = edge.ip
  /\ edge.prev.at = edge.at

\* C20: a request for which Allow returns false is answered 429 with the
\* body {"error":"Rate limit exceeded"}, the drop counter is incremented and
\* no route handler and no engine call is reached; with rate 1 and burst 1
\* the first of two immediate requests of one identity is served and the
\* second gets 429.
C20_DeniedAtTheEdge ==
  /\ LastDenied =>
       /\ edge.resp.StatusCode = 429
       /\ edge.resp.Body =
            <<"{", "\"", "e", "r", "r", "o", "r", "\"", ":", "\"", "R", "a", "t", "e", " ",
              "l", "i", "m", "i", "t", " ", "e", "x", "c", "e", "e", "d", "e", "d", "\"", "}">>
       /\ edge.resp.handler = "none"
       /\ metrics.rateLimitDropped = edge.droppedBefore + 1
       /\ lastReq.seq = edge.engineSeqBefore
       /\ lastReq.pc = "done"
  /\ SecondOfTwoImmediate =>
       /\ edge.prev.verdict = "allowed"
       /\ edge.prev.resp.handler # "none"
       /\ edge.prev.resp.StatusCode # 429
       /\ LastDenied
       /\ edge.resp.StatusCode = 429

\* the first of two immediate requests has got the proxied script, the
\* second has been denied
C20_Witness ==
  /\ SecondOfTwoImmediate
  /\ LastDenied
  /\ edge.prev.resp.handler = "proxy"
  /\ edge.prev.resp.StatusCode = 200
  /\ edge.prev.resp.proxyBy
  /\ metrics.rateLimitDropped = 1

(***************************************************************************)
(* C21: what the edge answers when the engine refuses the request.         *)
(***************************************************************************)
\* the last request has been routed to Handler.Proxy and has been answered
ProxiedAndAnswered ==
  /\ edge.seq > 0
  /\ edge.pc = "done"
  /\ edge.verdict # "denied"
  /\ edge.resp.handler = "proxy"
  /\ lastReq.seq = edge.engineSeqBefore + 1

\* the engine has refused the last request with a validation error
LastRefusedByValidation == ProxiedAndAnswered /\ lastReq.outcome = "validation_error"

\* C21: whenever the engine rejects a request with a validation error
\* (sanitizer rejection or disallowed path), the edge answers with status
\* 400 and a JSON error body, distinct from the 502 of upstream and proxy
\* errors.
C21_ValidationIs400 ==
  LastRefusedByValidation =>
    /\ edge.resp.StatusCode = 400
    /\ edge.resp.ContentType = CtJSON

(***************************************************************************)
(* C22: the answer of Handler.Proxy to a response and to an error of the   *)
(* engine.                                                                 *)
(***************************************************************************)
\* ProxyRequest has returned a response for the last request
LastGotResponse == ProxiedAndAnswered /\ lastReq.outcome \in {"ok", "hit"}

\* ProxyRequest has returned an upstream error or a proxy error
LastGotEngineError == ProxiedAndAnswered /\ lastReq.outcome \in {"upstream_error", "proxy_error"}

\* C22: when ProxyRequest returns a response, the edge answers with exactly
\* its status code, content type and body; when it returns an upstream or
\* proxy error, the edge answers 502 with the fixed body
\* {"error":"Failed to proxy request"}, which holds nothing of the error.
C22_PassThroughOr502 ==
  /\ LastGotResponse =>
       /\ edge.resp.StatusCode = lastReq.resp.StatusCode
       /\ edge.resp.ContentType = lastReq.resp.ContentType
       /\ edge.resp.Body = lastReq.resp.Body
  /\ LastGotEngineError =>
       /\ edge.resp.StatusCode = 502
       /\ edge.resp.ContentType = CtJSON
       /\ edge.resp.Body =
            <<"{", "\"", "e", "r", "r", "o", "r", "\"", ":", "\"", "F", "a", "i", "l", "e", "d",
              " ", "t", "o", " ", "p", "r", "o", "x", "y", " ", "r", "e", "q", "u", "e", "s",
              "t", "\"", "}">>

\* a 404 of the upstream has been passed on, after a request that ended in
\* an upstream or proxy error and got 502
C22_Witness ==
  /\ LastGotResponse
  /\ lastReq.outcome = "ok"
  /\ edge.resp.StatusCode = 404
  /\ edge.seq = 2
  /\ edge.prev.resp.StatusCode = 502
  /\ lastReq.prev.outcome \in {"upstream_error", "proxy_error"}

(***************************************************************************)
(* C23: header injection, from the request at the edge to the query of     *)
(* the upstream request.                                                   *)
(***************************************************************************)
\* INJECT_PARAMS_FROM_REQ_HEADERS=x-email__uip,user-agent__ua as in
\* TestInjectHeader, and the same mappings with the header names written
\* as fasthttp keeps them; no rate limiting
InjectConfigs ==
  {[DefaultConfig EXCEPT
      !.InjectParamsFromReqHeaders =
         <<"x", "-", "e", "m", "a", "i", "l", "_", "_", "u", "i", "p", ",",
           "u", "s", "e", "r", "-", "a", "g", "e", "n", "t", "_", "_", "u", "a">>,
      !.RateLimitEnabled = FALSE],
   [DefaultConfig EXCEPT
      !.InjectParamsFromReqHeaders =
         <<"X", "-", "E", "m", "a", "i", "l", "_", "_", "u", "i", "p", ",",
           "U", "s", "e", "r", "-", "A", "g", "e", "n", "t", "_", "_", "u", "a">>,
      !.RateLimitEnabled = FALSE]}

\* the requests of TestInjectHeader, with its two headers and without
InjectURIs ==
  {<<"/", "c", "o", "l", "l", "e", "c", "t">>,
   <<"/", "c", "o", "l", "l", "e", "c", "t", "?", "v", "=", "1">>}

InjectCallers ==
  {[sent |-> <<[name |-> <<"X", "-", "E", "m", "a", "i", "l">>,
                value |-> <<"m", "e", "@", "d", "u", "y", "e", "t", ".", "n", "e", "t">>],
               [name |-> <<"u", "s", "e", "r", "-", "a", "g", "e", "n", "t">>,
                value |-> <<"U", "n", "i", "t", "e", "s", "t">>]>>,
    host |-> <<"h">>],
   [sent |-> <<[name |-> <<"X", "-", "E", "m", "a", "i", "l">>, value |-> EmptyStr]>>,
    host |-> <<"h">>],
   [sent |-> <<[name |-> <<"x", "-", "e", "m", "a", "i", "l">>, value |-> <<"a">>],
               [name |-> <<"X", "-", "E", "m", "a", "i", "l">>, value |-> <<"b">>]>>,
    host |-> <<"h">>],
   [sent |-> NoHeaderLines, host |-> <<"h">>]}

InitInject ==
  /\ InitValidatorIdle
  /\ config \in InjectConfigs
  /\ cache = NewCache(config.CacheTTL, config.CacheMaxSize)
  /\ now = 0
  /\ wpc = [w \in Workers |-> Idle]
  /\ lastWrite = NoWrite
  /\ lastReq = NoRequest
  /\ limiter = NoLimiter
  /\ allowLog = NoAllowLog
  /\ client = NewClient(config)
  /\ edge = NoEdgeRequest
  /\ metrics = NewMetrics

\* requests of one client at one instant: neither the limiter nor the cache
\* has a part in them
NextInject ==
  \/ \E uri \in InjectURIs, caller \in InjectCallers, id \in GeneratedIDs :
        EdgeEnter(WindowIdentity, uri, caller.sent, caller.host, id)
  \/ EdgeProxy
  \/ \E up \in UpstreamBehaviours : ProxyRequestEnd(up)
  \/ EdgeProxyEnd
  \/ EdgeRecord
  \/ EdgeLeave

SpecInject == InitInject /\ [][NextInject]_vars

\* the engine has built an upstream request for the last request of the edge
UpstreamRequestBuilt ==
  /\ edge.seq > 0
  /\ lastReq.seq = edge.engineSeqBefore + 1
  /\ lastReq.outcome \in {"pending", "ok", "upstream_error", "proxy_error"}

\* the non-empty values the request carries under the header name, the name
\* taken as that of an HTTP header, whatever the case of its letters
Carried(name) ==
  {lastReq.headers[k] : k \in {h \in DOMAIN lastReq.headers : ToLower(h) = ToLower(name)}}
    \ {EmptyStr}

\* the values of the parameter in the query of the upstream request
UpstreamValues(param) ==
  {ParseArgs(lastReq.upstreamReq.QueryString)[i].value :
     i \in {j \in 1..Len(ParseArgs(lastReq.upstreamReq.QueryString)) :
              ParseArgs(lastReq.upstreamReq.QueryString)[j].key = param}}

\* C23: for each inject-mapping {header, param}, if the request carries the
\* header with a non-empty value the upstream query contains param=value,
\* and if the header is absent or empty nothing is appended for it; with
\* x-email__uip,user-agent__ua and the headers X-Email: me@duyet.net and
\* User-Agent: Unitest the upstream query contains uip=me@duyet.net and
\* ua=Unitest.
C23_HeaderInjection ==
  UpstreamRequestBuilt =>
    \A i \in 1..Len(GetInjectHeaders(config)) :
      IF Carried(GetInjectHeaders(config)[i].HeaderName) # {}
      THEN Carried(GetInjectHeaders(config)[i].HeaderName)
             \subseteq UpstreamValues(GetInjectHeaders(config)[i].ParamName)
      ELSE UpstreamValues(GetInjectHeaders(config)[i].ParamName) = {}

(***************************************************************************)
(* C24: the rewriting of the Google hosts in the bodies of scripts.        *)
(***************************************************************************)
\* the public hosts of the callers: two short ones, one that is part of a
\* listed host and one that is a listed host
RewriteHosts ==
  {<<"h">>, <<"e", ".", "c">>, <<"a">>,
   <<"g", "o", "o", "g", "l", "e", "t", "a", "g", "m", "a", "n", "a", "g", "e", "r", ".", "c", "o", "m">>}

\* upstream bodies: the script of the engine's runs, two hosts side by side,
\* no host, and two bodies in which the text around a host makes up a
\* listed host with a replacement "a"
RewriteBodies ==
  {ScriptBody,
   <<"s", "s", "l", ".", "g", "o", "o", "g", "l", "e", "-", "a", "n", "a", "l", "y", "t", "i", "c", "s", ".", "c", "o", "m", " ",
     "w", "w", "w", ".", "g", "o", "o", "g", "l", "e", "t", "a", "g", "m", "a", "n", "a", "g", "e", "r", ".", "c", "o", "m">>,
   <<"v", "a", "r", " ", "x">>,
   <<"g", "o", "o", "g", "l", "e", "-", "g", "o", "o", "g", "l", "e", "-", "a", "n", "a", "l", "y", "t", "i", "c", "s", ".", "c", "o", "m",
     "n", "a", "l", "y", "t", "i", "c", "s", ".", "c", "o", "m">>,
   <<"g", "o", "o", "g", "l", "e", "-", "s", "s", "l", ".", "g", "o", "o", "g", "l", "e", "-", "a", "n", "a", "l", "y", "t", "i", "c", "s", ".", "c", "o", "m",
     "n", "a", "l", "y", "t", "i", "c", "s", ".", "c", "o", "m">>}

RewriteContentTypes ==
  {CtJavaScript, CtGif,
   <<"a", "p", "p", "l", "i", "c", "a", "t", "i", "o", "n", "/", "j", "a", "v", "a", "s", "c", "r", "i", "p", "t">>}

RewriteBehaviours ==
  {UpstreamResponse(<<"ok", "ok">>, 200, ct, "", body, FALSE) :
     ct \in RewriteContentTypes, body \in RewriteBodies}

\* calls of ProxyRequest for a script, by callers of several public hosts
NextRewrite ==
  \/ \E host \in RewriteHosts :
        ProxyRequestBegin(<<"/", "g", "a", ".", "j", "s">>, NoHeaders, host)
  \/ \E up \in RewriteBehaviours : ProxyRequestEnd(up)
  \/ ProxyStore
  \/ ProxyStats
  \/ ProxyUpdate

SpecRewrite == InitEngine /\ [][NextRewrite]_vars

\* the last call of ProxyRequest has returned what it read from the upstream
LastFromUpstream == lastReq.outcome = "ok"

\* publicHost + routePrefix of the last call
Replacement == lastReq.host \o config.RoutePrefix

ListedHosts == {googleDomains[i] : i \in 1..Len(googleDomains)}

\* the listed hosts that occur in s at position i
HostsAt(s, i) == {d \in ListedHosts : i + Len(d) - 1 <= Len(s) /\ SubSeq(s, i, i + Len(d) - 1) = d}

\* s from position i on, every occurrence of a listed host replaced by r in
\* one pass from left to right, the longest host first where several occur
\* at one place
RECURSIVE ReplacedAtOnce(_, _, _)
ReplacedAtOnce(s, i, r) ==
  IF i > Len(s) THEN EmptyStr
  ELSE IF HostsAt(s, i) = {} THEN <<s[i]>> \o ReplacedAtOnce(s, i + 1, r)
  ELSE r \o ReplacedAtOnce(s, i + SetMax({Len(d) : d \in HostsAt(s, i)}), r)

ContainsListedHost(s) == \E d \in ListedHosts : Contains(s, d)

\* a replacement that makes up no listed host with the text around it: it
\* is not empty, no listed host is part of it, it is part of none, and none
\* begins with an end of it or ends with a beginning of it
StandsApart(r) ==
  /\ r # EmptyStr
  /\ \A d \in ListedHosts :
       /\ ~ Contains(r, d)
       /\ ~ Contains(d, r)
       /\ \A k \in 1..(Len(r) - 1) : ~ HasPrefix(d, Drop(r, k)) /\ ~ HasSuffix(d, Take(r, k))

\* C24 (as the code has it): for a JavaScript content type every occurrence
\* of the five hosts is replaced, in list order, by publicHost + routePrefix;
\* when that replacement stands apart from the listed hosts, the body is
\* the upstream body with every occurrence replaced, the more specific host
\* first (www.google-analytics.com becomes the replacement, not "www." and
\* the replacement), and holds none of the listed hosts.  For any other
\* content type the body is returned unchanged.
C24_RewrittenInListOrder ==
  LastFromUpstream =>
    IF isJavaScript(lastReq.fetched.ContentType)
    THEN StandsApart(Replacement) =>
           /\ lastReq.resp.Body = ReplacedAtOnce(lastReq.fetched.Body, 1, Replacement)
           /\ ~ ContainsListedHost(lastReq.resp.Body)
    ELSE lastReq.resp.Body = lastReq.fetched.Body

\* the script with www.google-analytics.com in it has come back with the
\* host and the route prefix in its place
C24_Witness ==
  /\ LastFromUpstream
  /\ isJavaScript(lastReq.fetched.ContentType)
  /\ lastReq.fetched.Body = ScriptBody
  /\ config.RoutePrefix # EmptyStr
  /\ StandsApart(Replacement)
  /\ lastReq.resp.Body = <<"/", "/">> \o lastReq.host \o config.RoutePrefix \o <<"/", "c">>

\* C24 (as stated): for a JavaScript content type, provided publicHost +
\* routePrefix contains none of the listed hosts, the returned body contains
\* none of them.
C24_NoListedHostLeft ==
  (LastFromUpstream /\ isJavaScript(lastReq.fetched.ContentType)
     /\ ~ ContainsListedHost(Replacement))
    => ~ ContainsListedHost(lastReq.resp.Body)

(***************************************************************************)
(* C25: the header X-Proxy-By on the answers of Handler.Proxy.             *)
(***************************************************************************)
\* C25: every response the edge produces for a request routed to the proxy
\* handler carries the header X-Proxy-By: gaxy, whether the engine returned
\* a response (cache hit or upstream) or an error.
C25_ProxyByOnEveryAnswer == ProxiedAndAnswered => edge.resp.proxyBy

(***************************************************************************)
(* C26: isAllowedPath applied to one path.                                 *)
(***************************************************************************)
\* paths: every allowed prefix, its beginnings, the prefix with a character
\* after it, with a slash before it and in upper case, and the paths of
\* TestIsAllowedPath
PathInputs ==
  UNION {{Take(allowedPrefixes[i], k) : k \in 0..Len(allowedPrefixes[i])}
         \cup {allowedPrefixes[i] \o <<c>> : c \in {"x", "/", "?"}}
         \cup {<<"/">> \o allowedPrefixes[i],
               [k \in 1..Len(allowedPrefixes[i]) |-> ToUpperChar(allowedPrefixes[i][k])]} :
           i \in 1..Len(allowedPrefixes)}
  \cup {<<"/", "r", "a", "n", "d", "o", "m", "/", "p", "a", "t", "h">>,
        <<"/", "a", "d", "m", "i", "n">>,
        <<"/", "a", "p", "i", "/", "d", "e", "b", "u", "g">>}

InitAllowed ==
  /\ reqURI \in PathInputs
  /\ sanitized = NotSanitized
  /\ InitCache

\* isAllowedPath is applied to the path
AllowedPathCall ==
  /\ ~ sanitized.called
  /\ sanitized' = [called |-> TRUE, allowed |-> isAllowedPath(reqURI)]
  /\ UNCHANGED <<reqURI, cache, now, wpc, lastWrite, config, lastReq, limiterVars, client, edgeVars>>

NextAllowed == AllowedPathCall

SpecAllowed == InitAllowed /\ [][NextAllowed]_vars

\* the ten prefixes the claim lists
TenPrefixes ==
  {<<"/", "a", "n", "a", "l", "y", "t", "i", "c", "s", ".", "j", "s">>,
   <<"/", "g", "a", ".", "j", "s">>,
   <<"/", "g", "t", "a", "g", "/", "j", "s">>,
   <<"/", "g", "t", "m", ".", "j", "s">>,
   <<"/", "c", "o", "l", "l", "e", "c", "t">>,
   <<"/", "j", "/", "c", "o", "l", "l", "e", "c", "t">>,
   <<"/", "g", "/", "c", "o", "l", "l", "e", "c", "t">>,
   <<"/", "r", "/", "c", "o", "l", "l", "e", "c", "t">>,
   <<"/", "b", "a", "t", "c", "h">>,
   <<"/", "a", "p", "i", "/">>}

BeginsWithOneOfTen(path) ==
  \E p \in TenPrefixes : Len(p) <= Len(path) /\ SubSeq(path, 1, Len(p)) = p

\* C26: isAllowedPath(path) returns true if and only if path begins with one
\* of the ten fixed prefixes; "/", "/admin" and "/random/path" are rejected.
C26_AllowedIffListedPrefix ==
  sanitized.called =>
    /\ sanitized.allowed <=> BeginsWithOneOfTen(reqURI)
    /\ reqURI \in {<<"/">>, <<"/", "a", "d", "m", "i", "n">>,
                   <<"/", "r", "a", "n", "d", "o", "m", "/", "p", "a", "t", "h">>}
         => ~ sanitized.allowed

\* /api/debug has been allowed
C26_Witness ==
  /\ sanitized.called
  /\ reqURI = <<"/", "a", "p", "i", "/", "d", "e", "b", "u", "g">>
  /\ sanitized.allowed

(***************************************************************************)
(* C27: the security headers on the responses of the edge.                 *)
(***************************************************************************)
\* the edge has answered its last request
Answer == edge.seq > 0 /\ edge.pc = "done"

\* the response carries the header with the value
Carries(resp, name, value) == name \in DOMAIN resp.headers /\ resp.headers[name] = value

\* C27: when security headers are enabled, every response sent by the edge
\* (proxied responses, /ping, /health, /metrics, 429 denials, error
\* responses and CORS preflight answers) carries X-Frame-Options:
\* SAMEORIGIN, X-Content-Type-Options: nosniff, X-XSS-Protection: 1;
\* mode=block and Referrer-Policy: strict-origin-when-cross-origin.
C27_SecurityHeadersOnEveryResponse ==
  (Answer /\ config.EnableSecurityHeaders) =>
    /\ Carries(edge.resp, "X-Frame-Options", "SAMEORIGIN")
    /\ Carries(edge.resp, "X-Content-Type-Options", "nosniff")
    /\ Carries(edge.resp, "X-XSS-Protection", "1; mode=block")
    /\ Carries(edge.resp, "Referrer-Policy", "strict-origin-when-cross-origin")

(***************************************************************************)
(* C28 and C29: the eviction loop of Set.                                  *)
(***************************************************************************)
\* worker w is in Set and has evicted nothing yet
SetAtLoopEntry(w) == wpc[w].op = "Set" /\ cache.stats.Evictions = wpc[w].evictionsBefore

\* the Set of worker w replaces an entry, and the new body fits once the
\* old one is discounted
ReplacementFits(w) ==
  /\ wpc[w].op = "Set"
  /\ wpc[w].key \in DOMAIN cache.data
  /\ cache.currSize - Len(cache.data[wpc[w].key].Data) + Len(wpc[w].p.Data) <= cache.maxSize

\* C28: when the key is already present, the old body length is subtracted
\* from the current size before the capacity check, so a replacement that
\* fits once the old body is discounted evicts no entry and leaves every
\* other key present.
C28_ReplacementEvictsNothing ==
  [][\A w \in Workers :
       (SetAtLoopEntry(w) /\ ReplacementFits(w)) =>
         /\ cache'.stats.Evictions = cache.stats.Evictions
         /\ (DOMAIN cache.data) \ {wpc[w].key} \subseteq DOMAIN cache'.data]_vars

\* C29: Set evicts only while currentSize + newBodyLen > maxSize and the
\* map is non-empty; each evicted entry is one with the earliest expiration
\* among the entries present at that moment; each eviction increments the
\* evictions counter by one and reduces the current size by the length of
\* the evicted body.
C29_EvictionOrder ==
  [][cache'.stats.Evictions # cache.stats.Evictions =>
       /\ \E w \in Workers :
            /\ wpc[w].op = "Set"
            /\ cache.currSize + Len(wpc[w].p.Data) > cache.maxSize
            /\ DOMAIN cache.data # {}
       /\ \E k \in DOMAIN cache.data :
            /\ \A j \in DOMAIN cache.data : cache.data[k].ExpiresAt <= cache.data[j].ExpiresAt
            /\ DOMAIN cache'.data = (DOMAIN cache.data) \ {k}
            /\ \A j \in DOMAIN cache'.data : cache'.data[j] = cache.data[j]
            /\ cache'.currSize = cache.currSize - Len(cache.data[k].Data)
            /\ cache'.stats.Evictions = cache.stats.Evictions + 1]_vars

\* a Set has evicted one entry and has left a younger one, stored after the
\* clock had moved on
C29_Witness ==
  \E w \in Workers :
    /\ wpc[w].op = "Set"
    /\ cache.stats.Evictions = wpc[w].evictionsBefore + 1
    /\ \E k \in DOMAIN cache.data : cache.data[k].ExpiresAt > cache.ttl

\* C30: the janitor.  The cache of Spec with the scheduling the code
\* relies on: the ticker keeps firing, and a call that holds the mutex runs
\* to its deferred Unlock.
SpecJanitor ==
  /\ Init
  /\ [][Next]_vars
  /\ WF_vars(JanitorTick)
  /\ WF_vars(\E w \in Workers : SetEvict(w))
  /\ WF_vars(\E w \in Workers : SetReturn(w))
  /\ WF_vars(\E w \in Workers : GetReturn(w))

\* a step of the janitor that removed something
JanitorStep ==
  /\ LockFree
  /\ lastWrite'.op = "cleanupExpired"
  /\ cache' # cache
  /\ wpc' = wpc
  /\ now' = now

\* the keys whose entry had expired before t
ExpiredKeys(c, t) == {k \in DOMAIN c.data : c.data[k].ExpiresAt < t}

\* the safety half: what one sweep removes and what it leaves
C30_SweepRemovesExpired ==
  [][JanitorStep =>
       /\ ExpiredKeys(cache', now) = {}
       /\ cache'.currSize =
            cache.currSize - SumBodyLen(cache.data, ExpiredKeys(cache, now))
       /\ DOMAIN cache'.data = (DOMAIN cache.data) \ ExpiredKeys(cache, now)
       /\ \A k \in DOMAIN cache'.data : cache'.data[k] = cache.data[k]]_vars

\* the liveness half: an expired entry goes, or is replaced by a fresh one
C30_EventuallyRemoved ==
  \A k \in CacheKeys :
    (k \in DOMAIN cache.data /\ cache.data[k].ExpiresAt < now)
      ~> (k \notin DOMAIN cache.data \/ ~ (cache.data[k].ExpiresAt < now))

\* C30: when a janitor tick completes, no entry whose expiration is earlier
\* than the tick's now remains in the map and the current size has been
\* reduced by the removed bodies; entries not yet expired are left untouched
\* by the tick; under a fair janitor every expired entry that is not
\* overwritten is eventually removed.
C30_Janitor == C30_SweepRemovesExpired /\ C30_EventuallyRemoved

\* the janitor has swept, and an entry that had not expired is still there
C30_SweepWitness ==
  /\ lastWrite.op = "cleanupExpired"
  /\ DOMAIN cache.data # {}
  /\ ExpiredKeys(cache, now) = {}
  /\ now = MaxTime

\* C31: every Get increments exactly one of the counters hits (on a true
\* return) or misses (otherwise), so that hits + misses counts the completed
\* Get calls of concurrent workers and no increment is lost: the return of
\* a Get raises the counter of its result by one and leaves the other alone.
C31_NoLostIncrement ==
  [][\A w \in Workers :
       (wpc[w].op = "Get" /\ wpc'[w] = Idle) =>
         IF wpc[w].r.found
         THEN /\ cache'.stats.Hits = cache.stats.Hits + 1
              /\ cache'.stats.Misses = cache.stats.Misses
         ELSE /\ cache'.stats.Misses = cache.stats.Misses + 1
              /\ cache'.stats.Hits = cache.stats.Hits]_vars

\* C32: a step in which Allow(ip) is called, and the token count the call
\* decides on: burst for an identity without a bucket, else the bucket's
\* tokens refilled for the time elapsed and capped at burst
AllowStep(ip) == allowLog'.calls[ip] = allowLog.calls[ip] + 1

AllowGranted(ip) == allowLog'.grants[ip] = allowLog.grants[ip] + 1

RefilledTokens(ip) ==
  IF ip \notin DOMAIN limiter.buckets THEN limiter.burst * TicksPerSecond
  ELSE LET b == limiter.buckets[ip]
           sum == b.tokens + (now - b.lastUpdate) * limiter.rps
       IN  IF sum > limiter.burst * TicksPerSecond
           THEN limiter.burst * TicksPerSecond ELSE sum

\* C32: Allow(identity) creates a bucket with tokens = burst and
\* lastUpdate = now if none exists, refills tokens to
\* min(burst, tokens + elapsed * rate), sets lastUpdate = now in the allowed
\* and in the denied case, returns true exactly when the refilled count is
\* at least one token and then takes exactly one token; on a false return
\* the count is the refilled value.  No other bucket changes.
C32_AllowStep ==
  [][\A ip \in Identities :
       AllowStep(ip) =>
         /\ DOMAIN limiter'.buckets = DOMAIN limiter.buckets \cup {ip}
         /\ limiter'.buckets[ip].lastUpdate = now
         /\ AllowGranted(ip) <=> RefilledTokens(ip) >= TicksPerSecond
         /\ limiter'.buckets[ip].tokens =
              IF AllowGranted(ip) THEN RefilledTokens(ip) - TicksPerSecond
              ELSE RefilledTokens(ip)]_vars

\* a call has just been denied on a bucket refilled to half a token
C32_Witness ==
  \E ip \in DOMAIN limiter.buckets :
    /\ allowLog.calls[ip] > allowLog.grants[ip]
    /\ limiter.buckets[ip].lastUpdate = now
    /\ limiter.buckets[ip].tokens > 0
    /\ limiter.buckets[ip].tokens < TicksPerSecond
    /\ now > 0

\* C33: a step of the limiter's janitor that removed something
LimiterCleanupStep ==
  /\ limiter.enabled
  /\ limiter' # limiter
  /\ allowLog' = allowLog
  /\ now' = now

\* the time since the last Allow of ip, in ticks
IdleFor(ip) == now - limiter.buckets[ip].lastUpdate

\* what the limiter does to the set of buckets, apart from which buckets a
\* janitor tick removes: a bucket exists from the first Allow of its
\* identity and only the janitor removes one, the buckets a tick keeps are
\* left as they are, and the first Allow of an identity without a bucket is
\* granted from a full bucket
BucketLifeCycle ==
  /\ \A ip \in Identities :
       AllowStep(ip) =>
         /\ ip \in DOMAIN limiter'.buckets
         /\ ip \notin DOMAIN limiter.buckets =>
              /\ AllowGranted(ip)
              /\ limiter'.buckets[ip] =
                   [tokens |-> (limiter.burst - 1) * TicksPerSecond, lastUpdate |-> now]
  /\ ~ LimiterCleanupStep => DOMAIN limiter.buckets \subseteq DOMAIN limiter'.buckets
  /\ LimiterCleanupStep =>
       /\ DOMAIN limiter'.buckets \subseteq DOMAIN limiter.buckets
       /\ \A ip \in DOMAIN limiter'.buckets : limiter'.buckets[ip] = limiter.buckets[ip]

\* C33 (as the code has it): a bucket exists from the first Allow of its
\* identity; a janitor tick removes the buckets whose identity has made no
\* Allow call for more than 5 minutes and never one that was touched by
\* Allow 5 minutes or less before the tick; after removal the identity's
\* next Allow starts from a fresh full bucket.
C33_IdleEvictionAfterLimit ==
  [][/\ limiter.enabled /\ limiter'.enabled => BucketLifeCycle
     /\ LimiterCleanupStep =>
          DOMAIN limiter'.buckets =
            {ip \in DOMAIN limiter.buckets : IdleFor(ip) <= IdleLimit * TicksPerSecond}]_vars

\* C33: ... a bucket whose identity has made no Allow call for 5 minutes or
\* more is removed by the next janitor tick, a bucket that was touched by
\* Allow less than 5 minutes before a tick is never removed by it ...
C33_IdleEvictionAtLimit ==
  [][/\ limiter.enabled /\ limiter'.enabled => BucketLifeCycle
     /\ LimiterCleanupStep =>
          DOMAIN limiter'.buckets =
            {ip \in DOMAIN limiter.buckets : IdleFor(ip) < IdleLimit * TicksPerSecond}]_vars

\* a tick has removed the bucket of an identity that had called Allow and
\* has kept one that had been idle for 5 minutes to the tick
C33_Witness ==
  /\ limiter.enabled
  /\ \E ip \in Identities : allowLog.total[ip] > 0 /\ ip \notin DOMAIN limiter.buckets
  /\ \E ip \in DOMAIN limiter.buckets : IdleFor(ip) = IdleLimit * TicksPerSecond

\* C34: no sleep precedes the first attempt, between attempt n and attempt
\* n + 1 exactly one sleep of retryDelay * n occurs, and no sleep follows
\* the last attempt: with k attempts made the sleeps taken are retryDelay
\* times 1, 2, ..., k - 1, in that order.
C34_LinearBackoff ==
  /\ (client.pc # "call" /\ Len(client.outs) = 0) => client.sleeps = <<>>
  /\ (client.pc # "call" /\ Len(client.outs) > 0) =>
       client.sleeps = [n \in 1..(Len(client.outs) - 1) |-> n]
  /\ client.pc = "call" => client.sleeps = [n \in 1..Len(client.outs) |-> n]

\* a call has ended after three attempts, having slept retryDelay and then
\* twice retryDelay
C34_Witness ==
  /\ client.pc = "done"
  /\ Len(client.outs) = 3
  /\ client.sleeps = <<1, 2>>

\* C35: calls of ProxyRequest against an upstream whose attempts fail in
\* several ways: a success at once or after a timeout, a failure that is not
\* retried, and two failures in a row with different errors
OutcomeBehaviours ==
  {UpstreamResponse(<<"ok", "ok">>, 200, CtJavaScript, "", ScriptBody, FALSE),
   UpstreamResponse(<<"timeout", "ok">>, 200, CtJavaScript, "", ScriptBody, FALSE),
   UpstreamResponse(<<"refused", "ok">>, 200, CtGif, "", EmptyStr, FALSE),
   UpstreamResponse(<<"timeout", "closed">>, 200, CtGif, "", EmptyStr, FALSE),
   UpstreamResponse(<<"closed", "dial">>, 200, CtGif, "", EmptyStr, FALSE)}

NextOutcome ==
  \/ \E uri \in {<<"/", "g", "a", ".", "j", "s">>,
                 <<"/", "c", "o", "l", "l", "e", "c", "t", "?", "v", "=", "1">>} :
        ProxyRequestBegin(uri, NoHeaders, <<"h">>)
  \/ \E up \in OutcomeBehaviours : ProxyRequestEnd(up)
  \/ ProxyStore
  \/ ProxyStats
  \/ ProxyUpdate
  \/ Tick

SpecOutcome == InitEngine /\ [][NextOutcome]_vars

\* the call of client.Do of the last request has returned
DoReturned == lastReq.outcome \notin {"none", "pending"} /\ lastReq.do # NoDo

\* all calls of RecordUpstreamRequest so far
RECURSIVE SumOver(_, _)
SumOver(m, keys) ==
  IF keys = {} THEN 0
  ELSE LET k == CHOOSE x \in keys : TRUE
       IN  m[k] + SumOver(m, keys \ {k})

UpstreamCalls(m) == SumOver(m.upstreamRequestsTotal, DOMAIN m.upstreamRequestsTotal)

\* C35: Do returns nil if and only if some attempt succeeded; otherwise it
\* returns an error of kind Upstream whose cause is the error of the last
\* attempt made, and ProxyRequest then returns an Upstream error, stores
\* nothing in the cache, and records the upstream call in metrics with the
\* error flag set.
C35_DoOutcome ==
  /\ [](DoReturned =>
          /\ lastReq.do.err = "none" <=>
               \E i \in 1..Len(lastReq.do.tried) : lastReq.do.tried[i] = "ok"
          /\ lastReq.do.err # "none" =>
               /\ lastReq.do.err = "upstream"
               /\ lastReq.do.tried # <<>>
               /\ lastReq.do.cause = lastReq.do.tried[Len(lastReq.do.tried)]
               /\ lastReq.outcome = "upstream_error"
               /\ lastReq.resp = NoResponse)
  /\ [][(lastReq.outcome = "pending" /\ lastReq'.outcome # "pending") =>
          /\ UpstreamCalls(metrics') = UpstreamCalls(metrics) + 1
          /\ metrics'.upstreamErrors =
               metrics.upstreamErrors + (IF lastReq'.do.err # "none" THEN 1 ELSE 0)
          /\ lastReq'.do.err # "none" =>
               cache' = cache]_vars

\* a call for a cacheable script has failed on its second attempt, with an
\* error other than that of the first, while the cache held an entry
C35_Witness ==
  /\ DoReturned
  /\ lastReq.do.err = "upstream"
  /\ Len(lastReq.do.tried) = 2
  /\ lastReq.do.tried[1] # lastReq.do.tried[2]
  /\ metrics.upstreamErrors = 1
  /\ UpstreamCalls(metrics) = 2
  /\ isCacheable(config, SanitizedURI(lastReq.uri))

\* C36: services that inject X-Email as uip and skip v, resp. uip and t
SkipConfigs ==
  {[DefaultConfig EXCEPT
      !.InjectParamsFromReqHeaders = <<"X", "-", "E", "m", "a", "i", "l", "_", "_", "u", "i", "p">>,
      !.SkipParamsFromReqHeaders = <<"v">>],
   [DefaultConfig EXCEPT
      !.InjectParamsFromReqHeaders = <<"X", "-", "E", "m", "a", "i", "l", "_", "_", "u", "i", "p">>,
      !.SkipParamsFromReqHeaders = <<"u", "i", "p", ",", " ", "t">>]}

SkipURIs ==
  {<<"/", "c", "o", "l", "l", "e", "c", "t">>,
   <<"/", "c", "o", "l", "l", "e", "c", "t", "?", "v", "=", "1">>,
   <<"/", "c", "o", "l", "l", "e", "c", "t", "?", "v", "=", "1", "&", "t", "=", "2">>,
   <<"/", "c", "o", "l", "l", "e", "c", "t", "?", "u", "i", "p", "=", "3">>,
   <<"/", "c", "o", "l", "l", "e", "c", "t", "?", "t", "=", "2", "&", "v", "=", "1", "&", "v", "=", "3">>}

SkipCallers ==
  {[headers |-> (<<"X", "-", "E", "m", "a", "i", "l">> :> <<"9">>), host |-> <<"h">>],
   [headers |-> NoHeaders, host |-> <<"h">>]}

InitSkip ==
  /\ InitValidatorIdle
  /\ config \in SkipConfigs
  /\ cache = NewCache(config.CacheTTL, config.CacheMaxSize)
  /\ now = 0
  /\ wpc = [w \in Workers |-> Idle]
  /\ lastWrite = NoWrite
  /\ lastReq = NoRequest
  /\ limiter = NoLimiter
  /\ allowLog = NoAllowLog
  /\ client = NewClient(config)
  /\ edge = NoEdgeRequest
  /\ metrics = NewMetrics

NextSkip ==
  \/ \E uri \in SkipURIs, caller \in SkipCallers :
        ProxyRequestBegin(uri, caller.headers, caller.host)
  \/ \E up \in UpstreamBehaviours : ProxyRequestEnd(up)

SpecSkip == InitSkip /\ [][NextSkip]_vars

\* the last call of ProxyRequest has built an upstream request
BuiltUpstreamRequest ==
  /\ lastReq.outcome \in {"pending", "ok", "upstream_error", "proxy_error"}
  /\ lastReq.upstreamReq # NoUpstreamRequest

SkipNames == {GetSkipParams(config)[i] : i \in 1..Len(GetSkipParams(config))}

\* the parameters of the upstream query, of the client's query, and those
\* the inject-mappings add for the headers of the request
UpstreamArgs == ParseArgs(lastReq.upstreamReq.QueryString)

ClientArgs == ParseArgs(Parse(SanitizedURI(lastReq.uri)).RawQuery)

InjectedArgs ==
  LET sel == SelectSeq(GetInjectHeaders(config),
                       LAMBDA mp : /\ mp.HeaderName \in DOMAIN lastReq.headers
                                   /\ lastReq.headers[mp.HeaderName] # EmptyStr)
  IN  [i \in 1..Len(sel) |->
         [key |-> sel[i].ParamName, value |-> lastReq.headers[sel[i].HeaderName],
          noValue |-> FALSE]]

\* C36: for every upstream request built by ProxyRequest no configured
\* skip-param name occurs in the upstream query, whether the parameter came
\* from the client's query or was appended by an inject-mapping of the same
\* parameter name; the parameters not named in the skip list are left in
\* the query.
C36_SkipAfterInject ==
  BuiltUpstreamRequest =>
    /\ \A i \in 1..Len(UpstreamArgs) : UpstreamArgs[i].key \notin SkipNames
    /\ UpstreamArgs =
         SelectSeq(ClientArgs \o InjectedArgs, LAMBDA kv : kv.key \notin SkipNames)

\* the same, for the requests of which a parameter is left
C36_SkipAfterInjectUnlessEmptied ==
  (BuiltUpstreamRequest
     /\ SelectSeq(ClientArgs \o InjectedArgs, LAMBDA kv : kv.key \notin SkipNames) # <<>>) =>
    /\ \A i \in 1..Len(UpstreamArgs) : UpstreamArgs[i].key \notin SkipNames
    /\ UpstreamArgs =
         SelectSeq(ClientArgs \o InjectedArgs, LAMBDA kv : kv.key \notin SkipNames)

\* C37: every JavaScript response returned by ProxyRequest, whether it comes
\* from the upstream or from the cache, is an upstream body in which the
\* Google hosts have been replaced by the public host (and route prefix) of
\* that same request, whatever the public host of an earlier request for
\* the same URI was.
C37_RewrittenForRequestingHost ==
  (lastReq.outcome \in {"ok", "hit"} /\ isJavaScript(lastReq.resp.ContentType)) =>
    \E up \in UpstreamBehaviours :
      lastReq.resp.Body = ReplaceDomains(up.Body, 1, lastReq.host \o config.RoutePrefix)

\* the same, for the responses that come from the upstream
C37_RewrittenWhenFetched ==
  (lastReq.outcome = "ok" /\ isJavaScript(lastReq.resp.ContentType)) =>
    lastReq.resp.Body = ReplaceDomains(lastReq.fetched.Body, 1, lastReq.host \o config.RoutePrefix)

\* C38: Cache.Set terminates for every key, the empty-string key included:
\* whenever the eviction loop runs with a non-empty map each iteration
\* removes one entry, so that the loop ends after at most as many
\* iterations as there are entries and the call returns.
C38_SetTerminates ==
  /\ [](\A w \in Workers :
          (wpc[w].op = "Set" /\ MustEvict(cache, Len(wpc[w].p.Data))) =>
            \A k \in OldestKeys(cache) :
              Cardinality(DOMAIN evictOldest(cache, k).data) =
                Cardinality(DOMAIN cache.data) - 1)
  /\ \A w \in Workers : (wpc[w].op = "Set") ~> (wpc[w] = Idle)

\* the same, as long as no entry is stored under the empty key
C38_SetTerminatesWithoutEmptyKey ==
  /\ [](\A w \in Workers :
          (wpc[w].op = "Set" /\ MustEvict(cache, Len(wpc[w].p.Data))
             /\ EmptyStr \notin DOMAIN cache.data) =>
            \A k \in OldestKeys(cache) :
              Cardinality(DOMAIN evictOldest(cache, k).data) =
                Cardinality(DOMAIN cache.data) - 1)
  /\ \A w \in Workers :
       (wpc[w].op = "Set") ~> (wpc[w] = Idle \/ EmptyStr \in DOMAIN cache.data)

(***************************************************************************)
(* The Metrics middleware under concurrent requests.  Each worker is a     *)
(* goroutine serving one request, and wpc holds its position: in the       *)
(* RateLimit middleware ("entered", "denied"), in the handler ("allowed",  *)
(* and in ProxyRequest "get" inside cache.Get, "do" waiting in client.Do,  *)
(* "store" before cache.Set, "stats" before GetStats and "update" before   *)
(* UpdateCacheStats), "returned" once c.Next() has returned, "deferred"    *)
(* once RecordRequest has run, and "panicking" while a panic of the        *)
(* handler unwinds towards the Recovery middleware.  A step is what a      *)
(* goroutine does under one lock.  The requests arrive and are served      *)
(* within one tick of the clock.                                           *)
(***************************************************************************)
MaxGaugeRequests == 2

\* the request URIs: a script, the URI on which ProxyRequest panics, and a
\* route of its own
GaugeURIs ==
  {<<"/", "g", "a", ".", "j", "s">>, <<"/", "%", "2", "5">>, <<"/", "p", "i", "n", "g">>}

\* the upstream answers with a script, answers 404, or refuses the connection
GaugeUpstreams ==
  {up \in UpstreamBehaviours :
     up.ContentEncoding = "" /\ (up.outs[1] = "ok" \/ up.outs[1] = "refused")}

InMetrics(w) == wpc[w].op = "Metrics"

RequestsRecorded(m) == SumOver(m.requestsTotal, DOMAIN m.requestsTotal)

\* the cache key of the request of w, and whether ProxyRequest looks it up
\* and stores under it
WorkerKey(w) == getCacheKey(wpc[w].sanitizedURI)

WorkerCacheable(w) == isCacheable(config, wpc[w].sanitizedURI)

\* the headers and the public host Handler.Proxy hands to ProxyRequest
WorkerHeaders(w) == ProxyHeaders(wpc[w].sent, wpc[w].host, wpc[w].ip)

WorkerHost(w) == getHostName(wpc[w].sent, wpc[w].host, wpc[w].uri)

\* a goroutine holds the read lock of c.mu
GetRunning == \E w \in Workers : InMetrics(w) /\ wpc[w].pc = "get"

\* where the goroutine goes on when ProxyRequest has come to outcome
AfterOutcome(outcome) ==
  CASE outcome = "pending" -> "do"
    [] outcome = "hit" -> "stats"
    [] outcome = "panic" -> "panicking"
    [] OTHER -> "returned"

\* the status of the answer of Handler.Proxy, 0 while there is none
StatusOf(outcome, resp) ==
  IF outcome \in {"pending", "panic"} THEN 0 ELSE ProxyResponse(outcome, resp).StatusCode

\* the Metrics middleware is entered: start := time.Now() and
\* m.IncRequestsInFlight() under m.mu; the RateLimit middleware is not in
\* the chain, or passes the request on, when there is no limiting
MetricsEnter(w, ip, uri, sent, host) ==
  /\ FreeWorker(w)
  /\ RequestsRecorded(metrics) + Cardinality({v \in Workers : InMetrics(v)}) < MaxGaugeRequests
  /\ HeadersParse(sent)
  /\ wpc' = [wpc EXCEPT ![w] =
               [op |-> "Metrics",
                pc |-> IF RateLimit(config, limiter, ip, now).verdict \in {"absent", "off"}
                       THEN "allowed" ELSE "entered",
                ip |-> ip, uri |-> uri, sent |-> sent, host |-> host, start |-> now,
                status |-> 0, at |-> now, sanitizedURI |-> EmptyStr, got |-> NoResponse,
                loaded |-> 0,
                upstreamReq |-> NoUpstreamRequest, resp |-> NoResponse, attempts |-> 0,
                stats |-> NoStats]]
  /\ metrics' = IncRequestsInFlight(metrics)
  /\ UNCHANGED <<now, cache, lastWrite, reqURI, sanitized, config, lastReq, client, edge,
                 limiterVars>>

\* the RateLimit middleware: limiter.Allow(ip) under l.mu
MetricsLimit(w) ==
  /\ InMetrics(w)
  /\ wpc[w].pc = "entered"
  /\ \E r \in {RateLimit(config, limiter, wpc[w].ip, now)} :
       /\ limiter' = r.limiter
       /\ allowLog' = LogAllow(allowLog, wpc[w].ip, r.verdict = "allowed")
       /\ wpc' = [wpc EXCEPT ![w].pc = IF r.verdict = "denied" THEN "denied" ELSE "allowed"]
  /\ UNCHANGED <<now, cache, lastWrite, reqURI, sanitized, config, lastReq, client, edgeVars>>

\* m.RecordRateLimitDrop() under m.mu, and the RateLimit middleware answers
\* 429
MetricsDrop(w) ==
  /\ InMetrics(w)
  /\ wpc[w].pc = "denied"
  /\ metrics' = RecordRateLimitDrop(metrics)
  /\ wpc' = [wpc EXCEPT ![w].pc = "returned", ![w].status = TooManyRequests.StatusCode]
  /\ UNCHANGED <<now, cache, lastWrite, reqURI, sanitized, config, lastReq, client, edge,
                 limiterVars>>

\* the request is answered by Ping, Health or Metrics; Export reads the
\* metrics under the read lock of m.mu
MetricsServe(w) ==
  /\ InMetrics(w)
  /\ wpc[w].pc = "allowed"
  /\ Route(config, PathOriginal(wpc[w].host, wpc[w].uri)) # "proxy"
  /\ \E resp \in Served(Route(config, PathOriginal(wpc[w].host, wpc[w].uri))) :
       wpc' = [wpc EXCEPT ![w].pc = "returned", ![w].status = resp.StatusCode]
  /\ UNCHANGED <<now, cache, lastWrite, reqURI, sanitized, config, lastReq, client,
                 limiterVars, edgeVars>>

\* Handler.Proxy calls ProxyRequest, which takes the time (start :=
\* time.Now()) and validates the request URI: it
\* returns an error, panics, goes on to client.Do, or enters cache.Get,
\* which looks the key up and loads the counter it will bump under the read
\* lock of c.mu
MetricsProxy(w) ==
  /\ InMetrics(w)
  /\ wpc[w].pc = "allowed"
  /\ Route(config, PathOriginal(wpc[w].host, wpc[w].uri)) = "proxy"
  /\ \E res \in {sanitizeRequestURI(TrimRoutePrefix(config,
                                                    RequestURI(wpc[w].host, wpc[w].uri)))} :
       \E out \in {proxySanitized(config, cache, now, res, WorkerHeaders(w))} :
         IF res.ok /\ out.outcome \notin {"validation_error", "panic"}
            /\ isCacheable(config, res.uri)
         THEN \E r \in {GetResult(cache, getCacheKey(res.uri), now)} :
                /\ cache' = [cache EXCEPT !.data = GetData(cache, getCacheKey(res.uri), now)]
                /\ wpc' = [wpc EXCEPT ![w].pc = "get", ![w].at = now,
                                      ![w].sanitizedURI = res.uri, ![w].got = r,
                                      ![w].loaded = IF r.found THEN cache.stats.Hits
                                                    ELSE cache.stats.Misses]
         ELSE /\ cache' = cache
              /\ wpc' = [wpc EXCEPT ![w].pc = AfterOutcome(out.outcome), ![w].at = now,
                                    ![w].sanitizedURI = IF res.ok THEN res.uri ELSE EmptyStr,
                                    ![w].upstreamReq = out.upstreamReq,
                                    ![w].status = StatusOf(out.outcome, out.resp)]
  /\ UNCHANGED <<now, lastWrite, reqURI, sanitized, config, lastReq, client, limiterVars,
                 edgeVars>>

\* cache.Get stores the bumped counter, releases the read lock and returns:
\* on a hit ProxyRequest goes on to the statistics of the cache, on a miss
\* it builds the upstream request and calls client.Do
MetricsGot(w) ==
  /\ InMetrics(w)
  /\ wpc[w].pc = "get"
  /\ \E out \in {proxyLookup(config,
                             [cache EXCEPT !.stats =
                                IF wpc[w].got.found THEN [@ EXCEPT !.Hits = wpc[w].loaded]
                                ELSE [@ EXCEPT !.Misses = wpc[w].loaded]],
                             wpc[w].got, Parse(wpc[w].sanitizedURI), WorkerHeaders(w))} :
       /\ cache' = out.cache
       /\ wpc' = [wpc EXCEPT ![w].pc = AfterOutcome(out.outcome),
                             ![w].resp = out.resp,
                             ![w].upstreamReq = out.upstreamReq,
                             ![w].status = StatusOf(out.outcome, out.resp)]
  /\ UNCHANGED <<now, lastWrite, reqURI, sanitized, config, lastReq, client, limiterVars,
                 edgeVars>>

\* client.Do returns, the upstream having behaved as up: the upstream call
\* is recorded under m.mu, the body is read and rewritten, and ProxyRequest
\* returns unless it has a response to store
MetricsDo(w, up) ==
  /\ InMetrics(w)
  /\ wpc[w].pc = "do"
  /\ \E done \in {ClientDo(up.outs, config.UpstreamRetryCount)} :
       /\ metrics' = UpstreamRecorded(metrics, done, up, now - wpc[w].at)
       /\ \E out \in proxyDone(config, cache, now, WorkerKey(w), FALSE, wpc[w].upstreamReq,
                                done, WorkerHost(w), up) :
            wpc' = [wpc EXCEPT ![w].pc = IF out.outcome = "ok" /\ WorkerCacheable(w)
                                            /\ out.resp.StatusCode = 200
                                         THEN "store" ELSE "returned",
                               ![w].resp = out.resp,
                               ![w].attempts = done.attempts,
                               ![w].status = StatusOf(out.outcome, out.resp)]
  /\ UNCHANGED <<now, cache, lastWrite, reqURI, sanitized, config, lastReq, client, edge,
                 limiterVars>>

\* s.cache.Set(cacheKey, bodyBytes, contentType, statusCode) under c.mu
MetricsStore(w) ==
  /\ InMetrics(w)
  /\ wpc[w].pc = "store"
  /\ ~ GetRunning
  /\ \E out \in proxyStore(cache, now, WorkerKey(w), WorkerCacheable(w), wpc[w].upstreamReq,
                            wpc[w].attempts, wpc[w].resp) :
       cache' = out.cache
  /\ wpc' = [wpc EXCEPT ![w].pc = "stats"]
  /\ UNCHANGED <<now, lastWrite, reqURI, sanitized, config, lastReq, client, limiterVars,
                 edgeVars>>

\* stats := s.cache.GetStats() under the read lock of c.mu
MetricsStats(w) ==
  /\ InMetrics(w)
  /\ wpc[w].pc = "stats"
  /\ wpc' = [wpc EXCEPT ![w].pc = "update", ![w].stats = GetStats(cache)]
  /\ UNCHANGED <<now, cache, lastWrite, reqURI, sanitized, config, lastReq, client,
                 limiterVars, edgeVars>>

\* s.metrics.UpdateCacheStats(...) under m.mu; ProxyRequest returns and
\* Handler.Proxy answers
MetricsUpdate(w) ==
  /\ InMetrics(w)
  /\ wpc[w].pc = "update"
  /\ metrics' = UpdateCacheStats(metrics, wpc[w].stats)
  /\ wpc' = [wpc EXCEPT ![w].pc = "returned"]
  /\ UNCHANGED <<now, cache, lastWrite, reqURI, sanitized, config, lastReq, client, edge,
                 limiterVars>>

\* m.RecordRequest(statusCode, duration) after c.Next() has returned
MetricsRecord(w) ==
  /\ InMetrics(w)
  /\ wpc[w].pc = "returned"
  /\ metrics' = RecordRequest(metrics, wpc[w].status, now - wpc[w].start)
  /\ wpc' = [wpc EXCEPT ![w].pc = "deferred"]
  /\ UNCHANGED <<now, cache, lastWrite, reqURI, sanitized, config, lastReq, client, edge,
                 limiterVars>>

\* the middleware is left, by its return or by the panic: the deferred call
\* runs
MetricsReturn(w) ==
  /\ InMetrics(w)
  /\ wpc[w].pc \in {"deferred", "panicking"}
  /\ metrics' = MetricsLeave(metrics, wpc[w].pc = "panicking")
  /\ wpc' = [wpc EXCEPT ![w] = Idle]
  /\ UNCHANGED <<now, cache, lastWrite, reqURI, sanitized, config, lastReq, client, edge,
                 limiterVars>>

NextGauge ==
  \/ \E w \in Workers, ip \in Identities, uri \in GaugeURIs, caller \in EdgeCallers :
        MetricsEnter(w, ip, uri, caller.sent, caller.host)
  \/ \E w \in Workers : MetricsLimit(w)
  \/ \E w \in Workers : MetricsDrop(w)
  \/ \E w \in Workers : MetricsServe(w)
  \/ \E w \in Workers : MetricsProxy(w)
  \/ \E w \in Workers : MetricsGot(w)
  \/ \E w \in Workers, up \in GaugeUpstreams : MetricsDo(w, up)
  \/ \E w \in Workers : MetricsStore(w)
  \/ \E w \in Workers : MetricsStats(w)
  \/ \E w \in Workers : MetricsUpdate(w)
  \/ \E w \in Workers : MetricsRecord(w)
  \/ \E w \in Workers : MetricsReturn(w)

SpecGauge == InitEdge /\ [][NextGauge]_vars

\* C39: the requests-in-flight gauge is never negative, it is the number of
\* requests between the entry and the exit of the Metrics middleware under
\* every interleaving, and it is 0 when no request is being processed,
\* whether the requests were answered, ended in an error of ProxyRequest,
\* were denied by the limiter or panicked.
C39_InFlightGauge ==
  /\ metrics.requestsInFlight >= 0
  /\ metrics.requestsInFlight = Cardinality({w \in Workers : InMetrics(w)})
  /\ (\A w \in Workers : wpc[w] = Idle) => metrics.requestsInFlight = 0

\* two requests are in the middleware at once: one is unwinding a panic, the
\* other was denied by the limiter and has been recorded
C39_Witness ==
  /\ metrics.requestsInFlight = 2
  /\ \E w \in Workers : InMetrics(w) /\ wpc[w].pc = "panicking"
  /\ \E w \in Workers : InMetrics(w) /\ wpc[w].pc = "deferred"
                        /\ wpc[w].status = TooManyRequests.StatusCode

\* every request has left the middleware: one was denied by the limiter,
\* the other was proxied, its upstream call and the statistics of the cache
\* having been recorded
C39_IdleWitness ==
  /\ \A w \in Workers : wpc[w] = Idle
  /\ metrics.rateLimitDropped > 0
  /\ metrics.requestsInFlight = 0
  /\ RequestsRecorded(metrics) >= 2
  /\ DOMAIN metrics.upstreamRequestsTotal # {}
  /\ cache.stats.Sets > 0

(***************************************************************************)
(* C40: the buckets of the limiter are independent of one another.         *)
(***************************************************************************)
\* the bucket of ip as a caller of Allow finds it: none, or its two fields
BucketOf(l, ip) ==
  IF ip \in DOMAIN l.buckets THEN <<l.buckets[ip]>> ELSE <<>>

\* a limiter that holds the bucket of ip and no other
OwnBucket(l, ip) ==
  [l EXCEPT !.buckets = [x \in (DOMAIN @) \cap {ip} |-> @[x]]]

\* C40: Allow(a) reads and changes only the bucket of a: on every call of
\* Allow(a) the bucket of every other identity b keeps its tokens and its
\* lastUpdate (and stays absent if it was absent), and what Allow(b) returns
\* and stores is fixed by the bucket of b and the time alone, so it is the
\* same whether or not a calls first.
C40_IdentityIsolation ==
  /\ [](limiter.enabled =>
          \A a \in Identities : \A b \in Identities \ {a} :
            /\ Allow(limiter, b, now).ok = Allow(OwnBucket(limiter, b), b, now).ok
            /\ Allow(Allow(limiter, a, now).limiter, b, now).ok = Allow(limiter, b, now).ok
            /\ BucketOf(Allow(Allow(limiter, a, now).limiter, b, now).limiter, b)
                 = BucketOf(Allow(limiter, b, now).limiter, b))
  /\ [][\A a \in Identities :
          AllowStep(a) =>
            \A b \in Identities \ {a} :
              BucketOf(limiter', b) = BucketOf(limiter, b)]_vars

\* a has just been denied at this instant while b, which spent a token
\* earlier, would be granted
C40_Witness ==
  \E a \in Identities : \E b \in Identities \ {a} :
    /\ allowLog.calls[a] > allowLog.grants[a]
    /\ allowLog.total[b] > 0
    /\ b \in DOMAIN limiter.buckets
    /\ limiter.buckets[b].lastUpdate < now
    /\ limiter.buckets[a].lastUpdate = now
    /\ ~ Allow(limiter, a, now).ok
    /\ Allow(limiter, b, now).ok
====
